---- MODULE Spec2Model ----
(***************************************************************************)
(* A model of the blobulator's stateful subsystems:                        *)
(*                                                                         *)
(*   - the particle field engine, Blobulator.tsx `animate`: one action per *)
(*     animation frame, plus the window resize and the pause toggle;       *)
(*   - the adaptive audio analyzer, App.tsx `useAdaptiveAudio`: one action *)
(*     per analyzer tick, one per tempo-detector event, and the start and  *)
(*     stop of a listening session with each outcome of the start;         *)
(*   - the engine's spatial index, Blobulator.tsx `SpatialHash`: rebuild   *)
(*     and neighbour query, and the index within one frame of `animate`;   *)
(*   - long sessions of the engine under a held frame period and audio     *)
(*     input, with the counter-rotation that sustained intensity turns on; *)
(*   - the engine's gravity centers, and the recycle step of a frame on    *)
(*     whole particles;                                                    *)
(*   - listening sessions on a held level or a held tempo, and the parts   *)
(*     of the asynchronous startListening interleaved with stopListening.  *)
(*                                                                         *)
(* Units.  Time is in whole milliseconds.  A particle's lifecycle is held  *)
(* in thousandths (1000 = fully present), so LIFECYCLE_FADE_RATE = 0.003   *)
(* per ms is 3 and LIFECYCLE_REMOVE_THRESHOLD = 0.005 is 5.  Audio levels  *)
(* handed to the engine (intensity, bass) are in tenths, rates in tenths   *)
(* of a particle per second.  Positions are whole pixels relative to the   *)
(* viewport centre, as in the source.                                      *)
(*                                                                         *)
(* The motion of a particle (flow field, drift, gravity, containment) is   *)
(* trigonometric floating-point code; the model replaces it by a           *)
(* nondeterministic displacement drawn from MovePatterns: what the claims  *)
(* need of a position is on which side of the edge bound it lies.          *)
(***************************************************************************)
EXTENDS Integers, Sequences, FiniteSets, TLC

\* ------------------------------------------------------------- bounds
\* Frames (paused ones included) explored after mount.
MaxFrames == 2
\* Analyzer ticks and tempo events explored from each initial state.
MaxAudioEvents == 2
\* Particles in the arrays the spatial index is built from.
MaxHashBlobs == 2
\* Frames of a held session.
MaxSessionFrames == 2200
\* Frames of a held session in which the rotation is followed, and the
\* resizes during it.
MaxRotationFrames == 40
MaxResizes == 1
\* Frames in which the spatial index is followed.
MaxIndexFrames == 1
\* Frames in which the gravity centers are followed.
MaxGravityFrames == 4
\* Sampling ticks of a listening session on a held level.
MaxLevelTicks == 250
\* ordinary tempo events of a session on a held tempo
MaxTempoEvents == 150
\* calls of startListening in one mount of the hook
MaxStarts == 2
\* particles in the arrays the recycle step is followed on
MaxRecycleBlobs == 2

\* ------------------------------------------------- program constants
SEED_BLOBS_INITIAL == 50
\* 0.4, in tenths
SEED_DECAY_FACTOR == 4
SEED_DURATION_SECONDS == 5
\* rates, in tenths of a particle per second
SPAWN_RATE_CALM == 3
SPAWN_RATE_INTENSE == 15
DEATH_RATE_CALM == 6
DEATH_RATE_INTENSE == 5
\* 0.5, in tenths
INTENSITY_THRESHOLD == 5
MIN_POPULATION == 40
SOFT_CAP_START == 130
SOFT_CAP_MAX == 350
HARD_CAP_LIMIT == 400
HARD_CAP_TARGET == 350
\* 0.003 per ms, in thousandths of lifecycle per ms
LIFECYCLE_FADE_RATE == 3
\* 0.005, in thousandths
LIFECYCLE_REMOVE_THRESHOLD == 5
\* lifecycle 1.0, in thousandths
LIFECYCLE_FULL == 1000
BPM_MIN == 70
BPM_MAX == 150
\* the expanded viewport bound of the edge check: viewport/2 + 200
EDGE_MARGIN == 200
\* createRandomBlob / recycle: stay this far from the edges
SPAWN_PADDING == 100
\* below this array length the emergency re-seed pushes RESEED_COUNT particles
RESEED_BELOW == 10
RESEED_COUNT == 20

\* ------------------------------------------------------------ helpers
Max(a, b) == IF a >= b THEN a ELSE b
Min(a, b) == IF a <= b THEN a ELSE b
Abs(a) == IF a < 0 THEN -a ELSE a
\* Math.floor(a / b) for b > 0 (TLA+'s \div floors, as Math.floor does)
FloorDiv(a, b) == a \div b
\* Math.round(a / b) for a >= 0, b > 0: nearest, halves up
RoundDiv(a, b) == (2 * a + b) \div (2 * b)
\* floor of the square root, for 0 <= n <= 1000000
ISqrt(n) == CHOOSE k \in 0..1000 : k * k <= n /\ (k + 1) * (k + 1) > n
\* the sequence as an explicit tuple (an evaluated copy of a mapped sequence)
Tup(s) == SubSeq(s, 1, Len(s))
IdsOf(bs) == {bs[i].id : i \in 1..Len(bs)}
AliveCount(bs) == Len(SelectSeq(bs, LAMBDA b : ~b.dying))

\* Sum, minimum and maximum of s[lo..hi], by halves.
RECURSIVE SumRange(_, _, _)
SumRange(s, lo, hi) ==
    IF lo > hi THEN 0
    ELSE IF lo = hi THEN s[lo]
    ELSE LET mid == (lo + hi) \div 2
         IN SumRange(s, lo, mid) + SumRange(s, mid + 1, hi)
RECURSIVE MinRange(_, _, _)
MinRange(s, lo, hi) ==
    IF lo = hi THEN s[lo]
    ELSE LET mid == (lo + hi) \div 2
         IN Min(MinRange(s, lo, mid), MinRange(s, mid + 1, hi))
RECURSIVE MaxRange(_, _, _)
MaxRange(s, lo, hi) ==
    IF lo = hi THEN s[lo]
    ELSE LET mid == (lo + hi) \div 2
         IN Max(MaxRange(s, lo, mid), MaxRange(s, mid + 1, hi))
Sum(s) == SumRange(s, 1, Len(s))

\* The smallest element of a non-empty set of integers.
SetMin(A) == CHOOSE a \in A : \A b \in A : a <= b
SetMax(A) == CHOOSE a \in A : \A b \in A : b <= a

\* ------------------------------------------------------------ particles
\* WaveFrontBlob, reduced to the fields the lifecycle and the population
\* logic read and write.  id stands for the random id string.
NewBlob(id, x, y) ==
    [id |-> id, x |-> x, y |-> y, generation |-> 0, age |-> 0,
     lifecycle |-> 0, dying |-> FALSE]

\* createBlob: the initial particles sit 50..200 px from the centre; the
\* model places them at distance 50 on the x axis (angle 0, Math.random() 0).
createBlob(id) == NewBlob(id, 50, 0)

\* Math.random() is a draw from Rand, in halves: 0 is 0.0 and 1 is 0.5.  One
\* draw per frame places every particle that frame creates or recycles, on
\* both axes: a corner of the padded area, or the centre.
Rand == {0, 1}

\* createRandomBlob: x = (Math.random() - 0.5) * 2 * maxX with
\* maxX = viewport.width / 2 - padding, and the same for y.
RandomX(vp, rnd) == (rnd - 1) * (vp.width \div 2 - SPAWN_PADDING)
RandomY(vp, rnd) == (rnd - 1) * (vp.height \div 2 - SPAWN_PADDING)
createRandomBlob(id, vp, rnd) == NewBlob(id, RandomX(vp, rnd), RandomY(vp, rnd))

\* ---------------------------------------------- population controller
\* bpmNormalized = clamp((bpm - BPM_MIN) / (BPM_MAX - BPM_MIN), 0, 1), in
\* eighths (exact for the tempi of AudioInputs, which are multiples of 10).
bpmNormalized(bpm) ==
    Max(0, Min(8, FloorDiv((bpm - BPM_MIN) * 8, BPM_MAX - BPM_MIN)))

\* Seeding batch of elapsed second s:
\* Math.max(1, Math.round(SEED_BLOBS_INITIAL * Math.pow(SEED_DECAY_FACTOR, s)))
SeedBatch(s) == Max(1, RoundDiv(SEED_BLOBS_INITIAL * SEED_DECAY_FACTOR ^ s, 10 ^ s))

\* populationDeathMultiplier, in thousandths:
\* 1 + pow(min(1, (pop - SOFT_CAP_START) / (SOFT_CAP_MAX - SOFT_CAP_START)), 1.5) * 4
populationDeathMultiplier(pop) ==
    IF pop > SOFT_CAP_START
    THEN LET overageRatio ==
                 Min(1000, FloorDiv((pop - SOFT_CAP_START) * 1000, SOFT_CAP_MAX - SOFT_CAP_START))
             pow15 == FloorDiv(overageRatio * ISqrt(overageRatio * 1000), 1000)
         IN 1000 + 4 * pow15
    ELSE 1000

\* effectiveSpawnRate = baseSpawnRate * bassBoost * bpmSpawnBoost * intensitySpawnBoost
\* as the fraction SpawnRateNum / SpawnRateDen particles per second:
\*   baseSpawnRate / 10, bassBoost = (20 + bass) / 20,
\*   bpmSpawnBoost = (40 + 3 n8) / 40, intensitySpawnBoost = (100 + 3 i) / 100.
SpawnRateNum(audio) ==
    (IF audio.intensity >= INTENSITY_THRESHOLD THEN SPAWN_RATE_INTENSE ELSE SPAWN_RATE_CALM)
      * (20 + audio.bass) * (40 + 3 * bpmNormalized(audio.bpm)) * (100 + 3 * audio.intensity)
SpawnRateDen == 10 * 20 * 40 * 100

\* effectiveDeathRate = baseDeathRate * bpmDeathReduction * populationDeathMultiplier
\* as DeathRateNum / DeathRateDen: baseDeathRate / 10,
\* bpmDeathReduction = (40 - n8) / 40, populationDeathMultiplier / 1000.
DeathRateNum(audio, pop) ==
    (IF audio.intensity >= INTENSITY_THRESHOLD THEN DEATH_RATE_INTENSE ELSE DEATH_RATE_CALM)
      * (40 - bpmNormalized(audio.bpm)) * populationDeathMultiplier(pop)
DeathRateDen == 10 * 40 * 1000

\* A variant that fires as soon as the interval is reached.
ExceedsIntervalInclusive(accumulated, num, den) == accumulated >= FloorDiv(1000 * den, num)
\* accumulated > 1000 / (num / den), for whole milliseconds `accumulated`
ExceedsInterval(accumulated, num, den) == accumulated > FloorDiv(1000 * den, num)

\* The spawn/death decisions animate takes before setBlobs.  `now` is the
\* performance.now() reading, `elapsed` the updated elapsedRef.
Decide(S, audio, now, elapsed) ==
    LET seedingStart == IF S.seedingStartTimeRef = 0 THEN now ELSE S.seedingStartTimeRef
        seedingElapsedSeconds == FloorDiv(now - seedingStart, 1000)
        isSeeding == seedingElapsedSeconds < SEED_DURATION_SECONDS
        seedNow == isSeeding /\ seedingElapsedSeconds > S.lastSeedSecondRef
        spawnDue == ~isSeeding /\
            ExceedsInterval(elapsed - S.lastSpawnRef, SpawnRateNum(audio), SpawnRateDen)
        deathDue == ~isSeeding /\
            ExceedsInterval(elapsed - S.lastDeathRef,
                            DeathRateNum(audio, S.populationRef), DeathRateDen)
    IN [seedingStartTimeRef |-> seedingStart,
        isSeeding |-> isSeeding,
        spawnCount |-> IF seedNow THEN SeedBatch(seedingElapsedSeconds)
                       ELSE IF spawnDue THEN 1 ELSE 0,
        shouldKillOldest |-> deathDue,
        lastSeedSecondRef |-> IF seedNow THEN seedingElapsedSeconds ELSE S.lastSeedSecondRef,
        lastSpawnRef |-> IF spawnDue THEN elapsed ELSE S.lastSpawnRef,
        lastDeathRef |-> IF deathDue THEN elapsed ELSE S.lastDeathRef]

\* ------------------------------------------------------ frame pipeline
\* The motion loop (drift + expansion + gravity + containment), abstracted:
\* the particles a pattern selects land `off` pixels from the edge bound on
\* the x axis, the others keep their position; every particle ages by one.
MovePatterns ==
    {[who |-> "none", off |-> 0], [who |-> "all", off |-> 0],
     [who |-> "first", off |-> 0], [who |-> "last", off |-> 0],
     [who |-> "first", off |-> -1]}
Selected(mv, i, n) ==
    \/ mv.who = "all"
    \/ mv.who = "first" /\ i = 1
    \/ mv.who = "last" /\ i = n
MoveBlobs(bs, mv, vp) ==
    Tup([i \in 1..Len(bs) |->
          IF Selected(mv, i, Len(bs))
          THEN [bs[i] EXCEPT !.x = vp.width \div 2 + EDGE_MARGIN + mv.off,
                             !.y = 0, !.age = @ + 1]
          ELSE [bs[i] EXCEPT !.age = @ + 1]])

\* A variant that fades in only: a dying particle keeps its lifecycle.
LifecycleStepOneFadeInOnly(b, deltaMs) ==
    IF ~b.dying /\ b.lifecycle < LIFECYCLE_FULL
    THEN [b EXCEPT !.lifecycle = Min(LIFECYCLE_FULL, @ + LIFECYCLE_FADE_RATE * deltaMs)]
    ELSE b
\* Lifecycle transitions: toward 0 while dying, toward 1 otherwise.
LifecycleStepOne(b, deltaMs) ==
    IF b.dying
    THEN [b EXCEPT !.lifecycle = Max(0, @ - LIFECYCLE_FADE_RATE * deltaMs)]
    ELSE IF b.lifecycle < LIFECYCLE_FULL
         THEN [b EXCEPT !.lifecycle = Min(LIFECYCLE_FULL, @ + LIFECYCLE_FADE_RATE * deltaMs)]
         ELSE b
LifecycleStep(bs, deltaMs) ==
    Tup([i \in 1..Len(bs) |-> LifecycleStepOne(bs[i], deltaMs)])

\* A variant that ignores the lifecycle threshold.
IsDeadAnyLifecycle(b) == b.dying

\* deadBlobs: dying and lifecycle exhausted.
IsDead(b) == b.dying /\ b.lifecycle <= LIFECYCLE_REMOVE_THRESHOLD

\* A variant that removes the dead particles from the array.
RecycleDeadByRemoval(bs, vp, rnd) == SelectSeq(bs, LAMBDA b : ~IsDead(b))

\* Recycle every dead particle in place: new position, age 0, lifecycle 0,
\* no longer dying; id and generation are not assigned.
RecycleOne(b, vp, rnd) ==
    [b EXCEPT !.x = RandomX(vp, rnd), !.y = RandomY(vp, rnd),
              !.age = 0, !.lifecycle = 0, !.dying = FALSE]
RecycleDead(bs, vp, rnd) ==
    Tup([i \in 1..Len(bs) |-> IF IsDead(bs[i]) THEN RecycleOne(bs[i], vp, rnd) ELSE bs[i]])

\* A variant that spawns new particles during seeding only.
SpawnNewSeedingOnly(bs, spawnCount, isSeeding, vp, rnd, nextId) ==
    IF spawnCount > 0 /\ isSeeding
    THEN bs \o [k \in 1..spawnCount |-> createRandomBlob(nextId + k - 1, vp, rnd)]
    ELSE bs

\* A variant that spawns whatever the non-dying count.
SpawnNewAnyCount(bs, spawnCount, isSeeding, vp, rnd, nextId) ==
    IF spawnCount > 0
    THEN bs \o [k \in 1..spawnCount |-> createRandomBlob(nextId + k - 1, vp, rnd)]
    ELSE bs

\* Spawn NEW particles: during seeding, or after it while the non-dying
\* count is below the soft cap start.
SpawnNew(bs, spawnCount, isSeeding, vp, rnd, nextId) ==
    LET canSpawnNew == isSeeding \/ AliveCount(bs) < SOFT_CAP_START
    IN IF spawnCount > 0 /\ canSpawnNew
       THEN bs \o [k \in 1..spawnCount |-> createRandomBlob(nextId + k - 1, vp, rnd)]
       ELSE bs

\* A variant without the MIN_POPULATION guard.
OldestIndexNoFloor(bs, shouldKillOldest) ==
    LET alive == {i \in 1..Len(bs) : ~bs[i].dying}
    IN IF shouldKillOldest /\ alive # {}
       THEN LET oldestAge == SetMax({bs[i].age : i \in alive})
            IN SetMin({i \in alive : bs[i].age = oldestAge})
       ELSE 0

\* A variant that marks the youngest non-dying particle.
OldestIndexYoungest(bs, shouldKillOldest) ==
    LET alive == {i \in 1..Len(bs) : ~bs[i].dying}
    IN IF shouldKillOldest /\ Cardinality(alive) > MIN_POPULATION
       THEN LET youngestAge == SetMin({bs[i].age : i \in alive})
            IN SetMin({i \in alive : bs[i].age = youngestAge})
       ELSE 0

\* The index the age-based death decision marks: the first non-dying
\* particle of maximal age (the scan keeps the first on ties); 0 when the
\* decision marks nothing.
OldestIndex(bs, shouldKillOldest) ==
    LET alive == {i \in 1..Len(bs) : ~bs[i].dying}
    IN IF shouldKillOldest /\ Cardinality(alive) > MIN_POPULATION
       THEN LET oldestAge == SetMax({bs[i].age : i \in alive})
            IN SetMin({i \in alive : bs[i].age = oldestAge})
       ELSE 0
MarkOldest(bs, shouldKillOldest) ==
    LET oldestIndex == OldestIndex(bs, shouldKillOldest)
    IN IF oldestIndex > 0 THEN [bs EXCEPT ![oldestIndex].dying = TRUE] ELSE bs

\* The edge check: outside the expanded viewport bound.
OutsideBound(b, vp) ==
    \/ Abs(b.x) >= vp.width \div 2 + EDGE_MARGIN
    \/ Abs(b.y) >= vp.height \div 2 + EDGE_MARGIN
EdgeMark(bs, vp) ==
    Tup([i \in 1..Len(bs) |->
          IF ~bs[i].dying /\ OutsideBound(bs[i], vp)
          THEN [bs[i] EXCEPT !.dying = TRUE] ELSE bs[i]])

\* Emergency re-seed when the array is critically short.
EmergencyReseed(bs, vp, rnd, nextId) ==
    IF Len(bs) < RESEED_BELOW
    THEN bs \o [k \in 1..RESEED_COUNT |-> createRandomBlob(nextId + k - 1, vp, rnd)]
    ELSE bs

\* Array.prototype.sort((a, b) => a.age - b.age): ascending by age, stable.
RECURSIVE SortByAgeOver(_, _)
SortByAgeOver(bs, ages) ==
    IF ages = {} THEN <<>>
    ELSE LET a == SetMin(ages)
         IN SelectSeq(bs, LAMBDA b : b.age = a) \o SortByAgeOver(bs, ages \ {a})
SortByAge(bs) == SortByAgeOver(bs, {bs[i].age : i \in 1..Len(bs)})

\* Hard cap: above HARD_CAP_LIMIT, sort by age and slice(-HARD_CAP_TARGET).
CullFires(bs) == Len(bs) > HARD_CAP_LIMIT
\* A variant that never culls.
HardCapCullOff(bs) == bs
HardCapCull(bs) ==
    IF CullFires(bs)
    THEN SubSeq(SortByAge(bs), Len(bs) - HARD_CAP_TARGET + 1, Len(bs))
    ELSE bs
\* The particles the slice drops: the head of the sorted array.
HardCapRemoved(bs) ==
    IF CullFires(bs)
    THEN SubSeq(SortByAge(bs), 1, Len(bs) - HARD_CAP_TARGET)
    ELSE <<>>

\* ------------------------------------------------------ held sessions
\* A session in which the host delivers frames at a fixed period while the
\* audio props stay the same from render to render: `held` is that period
\* and those props.  Outside such a session the props are drawn per frame.
VARIABLES
    held,
    heldSignal     \* a listening session on a held input: the spectrum level
                   \* of every tick and the tempo of every detector event
NoSignal == [level |-> 0, tempo |-> 0]
NoHeld == [deltaMs |-> 0, audio |-> [intensity |-> 0, bass |-> 0, bpm |-> 120]]
\* Frame periods, ms: a 60 Hz display and a slow host.
HeldPeriods == {16, 250}
\* Held props: loud with no bass at the slowest tempo (the lowest intense
\* spawn rate), intensity 0.9 with full bass at the fastest tempo, and two
\* calm levels (silence at the slowest tempo, just below the threshold with
\* full bass at the fastest).
HeldAudio ==
    {[intensity |-> INTENSITY_THRESHOLD, bass |-> 0, bpm |-> BPM_MIN],
     [intensity |-> 9, bass |-> 10, bpm |-> BPM_MAX],
     [intensity |-> 0, bass |-> 0, bpm |-> BPM_MIN],
     [intensity |-> INTENSITY_THRESHOLD - 1, bass |-> 10, bpm |-> BPM_MAX]}
HeldIntense == held.audio.intensity >= INTENSITY_THRESHOLD
HeldCalm == held.deltaMs > 0 /\ held.audio.intensity < INTENSITY_THRESHOLD

\* -------------------------------------------------- counter-rotation
\* Units: intensities in tenths, the threshold in hundredths, rotation
\* speeds in 1e-9 rad/ms, the ramp progress in thousandths.
ROTATION_INTENSITY_THRESHOLD == 55
ROTATION_ACTIVATION_SECONDS == 10
ROTATION_MAX_SPEED == 400000
ROTATION_RAMP_SECONDS == 60
ROTATION_HISTORY_MS == 60000
\* the lerp factor 0.02, in hundredths
ROTATION_LERP == 2
\* the rotation applies when rotationSpeed > 0.00001
ROTATION_MIN_SPEED == 10000

VARIABLES
    rotation,      \* intensityHistoryRef, sustainedHighStartRef (-1 is null),
                   \* rotationSpeedRef
    rotationLog    \* what the last frame's counter-rotation did (observation
                   \* only), and the resizes so far
VARIABLES
    gravity,       \* targetGravityCentersRef, gravityCentersRef,
                   \* lastGravityUpdateRef, and the performance.now() reading
    gravityLog     \* what the last frame's gravity step did (observation only)
gravityVars == <<gravity, gravityLog>>
VARIABLES
    starting,      \* where each call of startListening stands: "idle" (not
                   \* called), "awaitDevice" (in getUserMedia), "awaitDetector"
                   \* (in createRealtimeBpmAnalyzer), "done"
    streamRef,     \* streamRef.current: 0 is null, i the stream of call i
    tracks,        \* the tracks of every stream acquired: "live" or "stopped"
    lastCall       \* the last of startListening and stopListening to be
                   \* called (observation only)
startVars == <<starting, streamRef, tracks, lastCall>>
sessionVars == <<held, heldSignal, rotation, rotationLog, gravityVars, startVars>>

\* No call of startListening yet.
StartMount ==
    /\ starting = [i \in 1..MaxStarts |-> "idle"] /\ streamRef = 0
    /\ tracks = [i \in 1..MaxStarts |-> "none"] /\ lastCall = "none"

RotationMount ==
    [intensityHistoryRef |-> <<>>, sustainedHighStartRef |-> -1, rotationSpeedRef |-> 0]
NoRotationLog == [rotated |-> FALSE, maxDist |-> 0, nonFinite |-> FALSE, resizes |-> 0]

RECURSIVE SumValues(_, _, _)
SumValues(h, lo, hi) ==
    IF lo > hi THEN 0
    ELSE IF lo = hi THEN h[lo].value
    ELSE LET mid == (lo + hi) \div 2
         IN SumValues(h, lo, mid) + SumValues(h, mid + 1, hi)

\* The counter-rotation tracking of one non-paused frame at performance.now()
\* reading `now` with the intensity prop of this render.
trackRotation(R, now, intensity) ==
    LET pushed == Append(R.intensityHistoryRef, [time |-> now, value |-> intensity])
        cutoffTime == now - ROTATION_HISTORY_MS
        history == SelectSeq(pushed, LAMBDA e : e.time > cutoffTime)
        \* avgIntensity >= ROTATION_INTENSITY_THRESHOLD, with avgIntensity 0
        \* for an empty history
        high == Len(history) > 0 /\
                  SumValues(history, 1, Len(history)) * 10
                     >= ROTATION_INTENSITY_THRESHOLD * Len(history)
        sustainedStart ==
            IF high
            THEN (IF R.sustainedHighStartRef = -1 THEN now ELSE R.sustainedHighStartRef)
            ELSE -1
        sustainedMs == now - sustainedStart
        rampProgress ==
            Min(1000, FloorDiv(sustainedMs - ROTATION_ACTIVATION_SECONDS * 1000,
                               ROTATION_RAMP_SECONDS))
        targetRotationSpeed ==
            IF sustainedStart # -1 /\ sustainedMs >= ROTATION_ACTIVATION_SECONDS * 1000
            THEN FloorDiv(rampProgress * rampProgress * (ROTATION_MAX_SPEED \div 100000), 10)
            ELSE 0
    IN [intensityHistoryRef |-> history,
        sustainedHighStartRef |-> sustainedStart,
        rotationSpeedRef |->
            R.rotationSpeedRef
              + FloorDiv((targetRotationSpeed - R.rotationSpeedRef) * ROTATION_LERP, 100)]

\* maxDist = Math.max(viewport.width, viewport.height) / 2, in whole pixels
rotationMaxDist(vp) == Max(vp.width, vp.height) \div 2

\* The counter-rotation step of the motion loop.  distFromCenter / maxDist
\* with maxDist = 0 is Infinity (NaN at the centre), so distFactor and both
\* tangent components are Infinity or NaN, and so is the position they are
\* added to.
counterRotate(rotationSpeed, vp, resizes) ==
    LET rotated == rotationSpeed > ROTATION_MIN_SPEED
        maxDist == rotationMaxDist(vp)
    IN [rotated |-> rotated, maxDist |-> maxDist,
        nonFinite |-> rotated /\ maxDist = 0, resizes |-> resizes]


\* ------------------------------------------------- gravity centers
\* The gravity step of animate with ENABLE_DYNAMIC_GRAVITY set.  Units:
\* positions in hundredths of a pixel, strengths in 1e-9, the lerp factor
\* in hundredths.
MAX_GRAVITY_CENTERS == 3
GRAVITY_CENTER_MIN_BLOBS == 8
GRAVITY_CENTER_STRENGTH == 25000
GRAVITY_CENTER_UPDATE_MS == 500
GRAVITY_CENTER_LERP == 3
GRAVITY_CENTER_FADE_THRESHOLD == 1000
\* the count at which a cell's target has full strength
GRAVITY_FULL_COUNT == 20

GravityMount(t) ==
    [targetGravityCentersRef |-> <<>>, gravityCentersRef |-> <<>>,
     lastGravityUpdateRef |-> 0, now |-> t]
NoGravityLog ==
    [kind |-> "mount", frames |-> 0, detected |-> FALSE, initialised |-> FALSE,
     targets |-> <<>>, previous |-> <<>>, before |-> <<>>, after |-> <<>>,
     dropped |-> {}]

\* candidates.sort((a, b) => b.count - a.count): a stable sort, densest
\* first, by insertion from the right.
SortInDense(c, sorted) ==
    LET ahead == {k \in 1..Len(sorted) : sorted[k].count >= c.count}
        n == Cardinality(ahead)
    IN  SubSeq(sorted, 1, n) \o <<c>> \o SubSeq(sorted, n + 1, Len(sorted))
RECURSIVE SortByDensity(_)
SortByDensity(cs) ==
    IF Len(cs) = 0 THEN <<>> ELSE SortInDense(Head(cs), SortByDensity(Tail(cs)))

\* The targets of a detection: the cells of the density map with at least
\* GRAVITY_CENTER_MIN_BLOBS particles, the MAX_GRAVITY_CENTERS densest, each
\* at the centroid of its particles with strength
\* GRAVITY_CENTER_STRENGTH * Math.min(1, count / 20).
detectTargets(densityMap) ==
    LET dense == SelectSeq(densityMap, LAMBDA c : c.count >= GRAVITY_CENTER_MIN_BLOBS)
        sorted == SortByDensity(dense)
        candidates == SubSeq(sorted, 1, Min(Len(sorted), MAX_GRAVITY_CENTERS))
    IN  [i \in 1..Len(candidates) |->
            [x |-> FloorDiv(100 * candidates[i].sumX, candidates[i].count),
             y |-> FloorDiv(100 * candidates[i].sumY, candidates[i].count),
             strength |-> FloorDiv(GRAVITY_CENTER_STRENGTH
                                     * Min(GRAVITY_FULL_COUNT, candidates[i].count),
                                   GRAVITY_FULL_COUNT)]]

\* a += (t - a) * GRAVITY_CENTER_LERP, the step rounded toward zero
LerpToward(a, target) ==
    IF target >= a THEN a + ((target - a) * GRAVITY_CENTER_LERP) \div 100
    ELSE a - ((a - target) * GRAVITY_CENTER_LERP) \div 100

\* The gravity step of one frame at performance.now() reading `now`, with
\* the density map the particles of this frame give.  The result holds the
\* refs after the step and what the step did.
gravityStep(G, now, densityMap) ==
    LET detect == now - G.lastGravityUpdateRef > GRAVITY_CENTER_UPDATE_MS
        targets == IF detect THEN detectTargets(densityMap)
                   ELSE G.targetGravityCentersRef
        \* "Initialize actual centers if empty (first run)"
        initialise == detect /\ Len(G.gravityCentersRef) = 0 /\ Len(targets) > 0
        actuals == IF initialise THEN targets ELSE G.gravityCentersRef
        \* 1. while (actuals.length < targets.length) push at strength 0
        added == [i \in 1..Max(Len(actuals), Len(targets)) |->
                     IF i <= Len(actuals) THEN actuals[i]
                     ELSE [x |-> targets[i].x, y |-> targets[i].y, strength |-> 0]]
        \* 2. lerp toward the target of the same index, or toward 0
        lerped == [i \in 1..Len(added) |->
                     IF i <= Len(targets)
                     THEN [x |-> LerpToward(added[i].x, targets[i].x),
                           y |-> LerpToward(added[i].y, targets[i].y),
                           strength |-> LerpToward(added[i].strength, targets[i].strength)]
                     ELSE [added[i] EXCEPT !.strength = LerpToward(@, 0)]]
        \* 3. filter(c => c.strength > GRAVITY_CENTER_FADE_THRESHOLD)
        kept == SelectSeq(lerped, LAMBDA c : c.strength > GRAVITY_CENTER_FADE_THRESHOLD)
    IN  [refs |-> [targetGravityCentersRef |-> targets, gravityCentersRef |-> kept,
                   lastGravityUpdateRef |-> IF detect THEN now ELSE G.lastGravityUpdateRef,
                   now |-> now],
         detected |-> detect, initialised |-> initialise,
         targets |-> targets, previous |-> G.gravityCentersRef,
         before |-> added, after |-> lerped,
         dropped |-> {i \in 1..Len(lerped) :
                         lerped[i].strength <= GRAVITY_CENTER_FADE_THRESHOLD}]


\* ---------------------------------------------------------- engine state
VARIABLES
    blobs,                \* the particle array (React state `blobs`)
    viewport,             \* [width, height] (React state `viewport`)
    isPaused,             \* React state `isPaused`
    populationRef,        \* array length recorded at the end of the last frame
    elapsedRef,           \* non-paused elapsed time, ms
    lastFrameRef,         \* timestamp of the previous frame
    lastSpawnRef,         \* elapsedRef at the last equilibrium spawn decision
    lastDeathRef,         \* elapsedRef at the last death decision
    seedingStartTimeRef,  \* performance.now() at mount
    lastSeedSecondRef,    \* last seeding second that spawned its batch
    perfNow,              \* the latest performance.now() reading (monotonic clock)
    nextId,               \* ids handed out so far (ids are fresh random strings)
    frames,               \* animate calls so far
    log                   \* what the last frame did (observation only)

engineVars ==
    <<blobs, viewport, isPaused, populationRef, elapsedRef, lastFrameRef,
      lastSpawnRef, lastDeathRef, seedingStartTimeRef, lastSeedSecondRef,
      perfNow, nextId, frames, log>>

\* The engine state as one record, for the frame function.
EngineState ==
    [blobs |-> blobs, viewport |-> viewport, isPaused |-> isPaused,
     populationRef |-> populationRef, elapsedRef |-> elapsedRef,
     lastFrameRef |-> lastFrameRef, lastSpawnRef |-> lastSpawnRef,
     lastDeathRef |-> lastDeathRef, seedingStartTimeRef |-> seedingStartTimeRef,
     lastSeedSecondRef |-> lastSeedSecondRef, perfNow |-> perfNow,
     nextId |-> nextId, frames |-> frames, log |-> log]

\* What a frame did, for the properties below: deltaMs, the phase, the death
\* decision and the non-dying count it saw, the ids each step acted on.
NoLog ==
    [kind |-> "mount", timestamp |-> 0, deltaMs |-> 0, isSeeding |-> TRUE, culled |-> FALSE,
     shouldKillOldest |-> FALSE, aliveAtDeathCheck |-> 0, spawned |-> 0,
     recycled |-> {}, ageMarked |-> {}, edgeOut |-> {}, culledAges |-> {}]

\* A variant of the paused branch that leaves lastFrameRef alone.
pausedFrameClockHeld(S, timestamp) ==
    [S EXCEPT !.frames = @ + 1,
              !.log = [NoLog EXCEPT !.kind = "paused", !.timestamp = timestamp]]
\* The branch of animate under `if (isPaused)`: lastFrameRef.current =
\* timestamp, the next frame is requested, nothing else.
pausedFrame(S, timestamp) ==
    [S EXCEPT !.lastFrameRef = timestamp, !.frames = @ + 1,
              !.log = [NoLog EXCEPT !.kind = "paused", !.timestamp = timestamp]]

\* animate(timestamp) with the props of this render (audio), the motion of
\* this frame (mv) and this frame's Math.random() draw (rnd).
animate(S, timestamp, audio, mv, rnd) ==
    IF S.isPaused
    THEN pausedFrame(S, timestamp)
    ELSE
    LET deltaMs == timestamp - S.lastFrameRef
        elapsed == S.elapsedRef + deltaMs
        now     == Max(timestamp, S.perfNow)
        d       == Decide(S, audio, now, elapsed)
        vp      == S.viewport
        moved    == MoveBlobs(S.blobs, mv, vp)
        stepped  == LifecycleStep(moved, deltaMs)
        recycled == RecycleDead(stepped, vp, rnd)
        spawned  == SpawnNew(recycled, d.spawnCount, d.isSeeding, vp, rnd, S.nextId)
        marked   == MarkOldest(spawned, d.shouldKillOldest)
        edged    == EdgeMark(marked, vp)
        reseeded == EmergencyReseed(edged, vp, rnd, S.nextId + Len(spawned) - Len(recycled))
        updatedBlobs == HardCapCull(reseeded)
    IN [blobs |-> updatedBlobs,
        viewport |-> vp,
        isPaused |-> FALSE,
        populationRef |-> Len(updatedBlobs),
        elapsedRef |-> elapsed,
        lastFrameRef |-> timestamp,
        lastSpawnRef |-> d.lastSpawnRef,
        lastDeathRef |-> d.lastDeathRef,
        seedingStartTimeRef |-> d.seedingStartTimeRef,
        lastSeedSecondRef |-> d.lastSeedSecondRef,
        perfNow |-> now,
        nextId |-> S.nextId + Len(reseeded) - Len(recycled),
        frames |-> S.frames + 1,
        log |-> [kind |-> "frame", timestamp |-> timestamp,
                 deltaMs |-> deltaMs, isSeeding |-> d.isSeeding,
                 culled |-> CullFires(reseeded),
                 shouldKillOldest |-> d.shouldKillOldest,
                 aliveAtDeathCheck |-> AliveCount(spawned),
                 spawned |-> Len(spawned) - Len(recycled),
                 recycled |-> {stepped[i].id : i \in
                                {j \in 1..Len(stepped) :
                                   stepped[j].dying /\
                                   stepped[j].lifecycle <= LIFECYCLE_REMOVE_THRESHOLD}},
                 ageMarked |-> {spawned[i].id : i \in
                                 {j \in 1..Len(spawned) :
                                    ~spawned[j].dying /\ marked[j].dying}},
                 edgeOut |-> {marked[i].id : i \in
                               {j \in 1..Len(marked) :
                                  ~marked[j].dying /\ OutsideBound(marked[j], vp)}},
                 culledAges |-> LET removed == HardCapRemoved(reseeded)
                                IN {removed[i].age : i \in 1..Len(removed)}]]

\* =============================================== adaptive audio analyzer
\* Units.  Amplitudes and their statistics are in thousandths, intensities
\* and the adaptive threshold in millionths, the tempo confidence in
\* hundredths, the pending tempo in thousandths of a BPM.
HISTORY_DURATION_MS == 60000
SAMPLE_INTERVAL_MS == 100
MAX_SAMPLES == HISTORY_DURATION_MS \div SAMPLE_INTERVAL_MS
\* 0.15, in hundredths
INTENSITY_SMOOTHING == 15
ENERGY_HISTORY_SIZE == 10
INERTIA_WINDOW_MS == 2000
INERTIA_SAMPLES == INERTIA_WINDOW_MS \div SAMPLE_INTERVAL_MS
DEFAULT_BPM == 120
\* 0.97, in hundredths
BPM_SMOOTHING == 97
BPM_JUMP_THRESHOLD == 15
BPM_UPDATE_INTERVAL_MS == 1000
\* the stable event's weight on the pending tempo, 0.7, in hundredths
STABLE_SMOOTHING == 70
\* amplitude below which a tick decays the confidence: 0.02, in thousandths
SILENCE_FLOOR == 20
\* the decay per quiet tick: 0.02, in hundredths
CONFIDENCE_DECAY == 2
\* the weight of the previous tempo in the return to DEFAULT_BPM: 0.95
BPM_RETURN_KEEP == 95
\* history length from which the adaptive threshold adapts
THRESHOLD_MIN_HISTORY == 100
\* the band the adaptive threshold is clamped to: 0.02 and 0.5, in millionths
THRESHOLD_FLOOR == 20000
THRESHOLD_CEILING == 500000
\* energy samples calculateIntensity needs for the derivative boost
ENERGY_MIN_HISTORY == 3
\* 1.0 as an amplitude, an intensity, a confidence
AMPLITUDE_FULL == 1000
INTENSITY_FULL == 1000000
CONFIDENCE_FULL == 100

\* calculateStats: min, max, mean and standard deviation of the history.
calculateStats(history) ==
    IF Len(history) = 0
    THEN [min |-> 0, max |-> 100, mean |-> 50, stdDev |-> 20]
    ELSE LET n == Len(history)
             mean == Sum(history) \div n
             squaredDiffs ==
                 Tup([i \in 1..n |-> (history[i] - mean) * (history[i] - mean)])
             variance == Sum(squaredDiffs) \div n
         IN [min |-> MinRange(history, 1, n), max |-> MaxRange(history, 1, n),
             mean |-> mean, stdDev |-> ISqrt(variance)]

\* A variant without the fallback for a range below 0.001.
normalizeValueNoFallback(value, min, max) ==
    Max(0, Min(INTENSITY_FULL,
               FloorDiv((value - min) * INTENSITY_FULL, Max(1, max - min))))

\* normalizeValue: 0.5 when the range is below 0.001, else clamped to [0, 1].
normalizeValue(value, min, max) ==
    LET range == max - min
    IN IF range < 1 THEN INTENSITY_FULL \div 2
       ELSE Max(0, Min(INTENSITY_FULL, FloorDiv((value - min) * INTENSITY_FULL, range)))

\* derivativeBoost * 0.3 = max(0, (currentAmplitude - recentAvg) * 10) * 0.3
DerivativeBoost(currentAmplitude, energyHistory) ==
    LET n == Len(energyHistory)
    IN Max(0, FloorDiv(3 * (currentAmplitude * n - Sum(energyHistory))
                         * (INTENSITY_FULL \div AMPLITUDE_FULL), n))

\* A variant without the Math.min(1, ...) on the raw intensity.
calculateIntensityUnclamped(currentAmplitude, energyHistory, stats) ==
    IF Len(energyHistory) < ENERGY_MIN_HISTORY
    THEN normalizeValue(currentAmplitude, stats.min, stats.max)
    ELSE normalizeValue(currentAmplitude, stats.min, stats.max)
           + DerivativeBoost(currentAmplitude, energyHistory)

\* calculateIntensity: normalized amplitude, boosted by rising energy.
calculateIntensity(currentAmplitude, energyHistory, stats) ==
    IF Len(energyHistory) < ENERGY_MIN_HISTORY
    THEN normalizeValue(currentAmplitude, stats.min, stats.max)
    ELSE Min(INTENSITY_FULL,
             normalizeValue(currentAmplitude, stats.min, stats.max)
               + DerivativeBoost(currentAmplitude, energyHistory))

\* A variant that evicts one sample too early (>= instead of >).
PushBoundedEarly(history, value, capacity) ==
    IF Len(history) + 1 >= capacity
    THEN Tail(Append(history, value))
    ELSE Append(history, value)

\* [...history, value], then shift() when longer than the capacity.
PushBounded(history, value, capacity) ==
    IF Len(history) + 1 > capacity
    THEN Tail(Append(history, value))
    ELSE Append(history, value)

\* A variant without the Math.min(1, ...) on count / 100.
EventConfidenceUnclamped(count) == count

\* Math.min(1, topResult.count / 100)
EventConfidence(count) == Min(CONFIDENCE_FULL, count)

\* A variant that decays the confidence on every sampling tick.
decayConfidenceAnyLevel(bpmConfidence, amplitude) ==
    Max(0, bpmConfidence - CONFIDENCE_DECAY)

\* newBpmConfidence of a sampling tick: decayed when the amplitude is
\* below the near-silence floor.
decayConfidence(bpmConfidence, amplitude) ==
    IF amplitude < SILENCE_FLOOR
    THEN Max(0, bpmConfidence - CONFIDENCE_DECAY)
    ELSE bpmConfidence

\* A variant that adapts the threshold from the first sample on.
adaptThresholdAnyHistory(threshold, samples, stats) ==
    Max(THRESHOLD_FLOOR, Min(THRESHOLD_CEILING,
        FloorDiv(threshold * 99 + stats.mean * 1000 + stats.stdDev * 500, 100)))

\* newThreshold of a sampling tick: prev.adaptiveThreshold * 0.99 +
\* targetThreshold * 0.01 with targetThreshold = mean + stdDev * 0.5,
\* clamped, once the history holds THRESHOLD_MIN_HISTORY samples.
adaptThreshold(threshold, samples, stats) ==
    IF samples >= THRESHOLD_MIN_HISTORY
    THEN LET targetThreshold == stats.mean * 1000 + stats.stdDev * 500
         IN  Max(THRESHOLD_FLOOR, Min(THRESHOLD_CEILING,
                 FloorDiv(threshold * 99 + targetThreshold, 100)))
    ELSE threshold

\* A variant whose updater does not take the tempo from prev: it writes the
\* tempo and confidence of the state the callback was created with.
SampleUpdateStaleTempo(prev, amplitude) ==
    LET newAmplitudeHistory == PushBounded(prev.amplitudeHistory, amplitude, MAX_SAMPLES)
        newEnergyHistory == PushBounded(prev.energyHistory, amplitude, ENERGY_HISTORY_SIZE)
        newStats == calculateStats(newAmplitudeHistory)
        rawIntensity == calculateIntensity(amplitude, newEnergyHistory, newStats)
        newSmoothedIntensity ==
            FloorDiv(prev.smoothedIntensity * INTENSITY_SMOOTHING
                       + rawIntensity * (100 - INTENSITY_SMOOTHING), 100)
        newInertiaHistory ==
            PushBounded(prev.inertiaHistory, newSmoothedIntensity, INERTIA_SAMPLES)
    IN [amplitudeHistory |-> newAmplitudeHistory,
        energyHistory |-> newEnergyHistory,
        inertiaHistory |-> newInertiaHistory,
        adaptiveThreshold |->
            adaptThreshold(prev.adaptiveThreshold, Len(newAmplitudeHistory), newStats),
        smoothedIntensity |-> newSmoothedIntensity,
        inertiaIntensity |-> Sum(newInertiaHistory) \div Len(newInertiaHistory),
        bpm |-> DEFAULT_BPM,
        bpmConfidence |-> 0,
        stats |-> newStats]

\* The setAdaptiveState updater of a sampling tick.
SampleUpdate(prev, amplitude) ==
    LET newAmplitudeHistory == PushBounded(prev.amplitudeHistory, amplitude, MAX_SAMPLES)
        newEnergyHistory == PushBounded(prev.energyHistory, amplitude, ENERGY_HISTORY_SIZE)
        newStats == calculateStats(newAmplitudeHistory)
        rawIntensity == calculateIntensity(amplitude, newEnergyHistory, newStats)
        newSmoothedIntensity ==
            FloorDiv(prev.smoothedIntensity * INTENSITY_SMOOTHING
                       + rawIntensity * (100 - INTENSITY_SMOOTHING), 100)
        newInertiaHistory ==
            PushBounded(prev.inertiaHistory, newSmoothedIntensity, INERTIA_SAMPLES)
        newInertiaIntensity == Sum(newInertiaHistory) \div Len(newInertiaHistory)
        newThreshold ==
            adaptThreshold(prev.adaptiveThreshold, Len(newAmplitudeHistory), newStats)
        quiet == amplitude < SILENCE_FLOOR
        newBpmConfidence == decayConfidence(prev.bpmConfidence, amplitude)
        newBpm ==
            IF quiet /\ newBpmConfidence = 0
            THEN RoundDiv(prev.bpm * BPM_RETURN_KEEP
                            + DEFAULT_BPM * (100 - BPM_RETURN_KEEP), 100)
            ELSE prev.bpm
    IN [amplitudeHistory |-> newAmplitudeHistory,
        energyHistory |-> newEnergyHistory,
        inertiaHistory |-> newInertiaHistory,
        adaptiveThreshold |-> newThreshold,
        smoothedIntensity |-> newSmoothedIntensity,
        inertiaIntensity |-> newInertiaIntensity,
        bpm |-> newBpm,
        bpmConfidence |-> newBpmConfidence,
        stats |-> newStats]

VARIABLES
    isListening,          \* React state `isListening`
    features,             \* React state `features` (the last spectrum summary)
    adaptiveState,        \* React state `adaptiveState`
    lastSampleTimeRef,    \* performance.now() of the last sampling tick
    lastBpmUpdateTimeRef, \* performance.now() of the last tempo publish
    pendingBpmRef,        \* the smoothed tempo accumulated between publishes
    audioNow,             \* the latest performance.now() reading of the hook
    sampled,              \* every amplitude sampled so far (observation only)
    audioEvents,          \* ticks and tempo events so far
    error,                \* React state `error`: "null" or the message
    bpmAnalyzerRef,       \* the tempo detector: "null", "running", "stopped"
    audioLog,             \* the last call on the hook (observation only)
    audioHist             \* what has been published so far (observation only)

audioVars ==
    <<isListening, features, adaptiveState, lastSampleTimeRef,
      lastBpmUpdateTimeRef, pendingBpmRef, audioNow, sampled, audioEvents,
      error, bpmAnalyzerRef, audioLog, audioHist>>

AudioState ==
    [isListening |-> isListening, features |-> features,
     adaptiveState |-> adaptiveState, lastSampleTimeRef |-> lastSampleTimeRef,
     lastBpmUpdateTimeRef |-> lastBpmUpdateTimeRef, pendingBpmRef |-> pendingBpmRef,
     audioNow |-> audioNow, sampled |-> sampled, audioEvents |-> audioEvents,
     error |-> error, bpmAnalyzerRef |-> bpmAnalyzerRef,
     audioLog |-> audioLog, audioHist |-> audioHist]

\* The page's clock when the hook's first callback can run, ms: the
\* microphone prompt and the detector's start take longer than one
\* BPM_UPDATE_INTERVAL_MS.
SESSION_START_MS == 2000

NoAudioLog ==
    [kind |-> "mount", level |-> 0, candidates |-> <<>>,
     pendingBefore |-> DEFAULT_BPM * 1000, confidentBefore |-> FALSE,
     lastPublishBefore |-> 0]
\* confidentSeen: a confidence above 0.3 has been published; lastChangeAt:
\* when a tick or an ordinary tempo event last changed the published tempo.
NoAudioHist == [confidentSeen |-> FALSE, lastChangeAt |-> -1]

\* useAdaptiveAudio after construction.
AudioMount ==
    [isListening |-> FALSE,
     features |-> [amplitude |-> 0, bass |-> 0, mid |-> 0, treble |-> 0],
     adaptiveState |->
        [amplitudeHistory |-> <<>>, energyHistory |-> <<>>, inertiaHistory |-> <<>>,
         adaptiveThreshold |-> 50000, smoothedIntensity |-> 0, inertiaIntensity |-> 0,
         bpm |-> DEFAULT_BPM, bpmConfidence |-> 0,
         stats |-> calculateStats(<<>>)],
     lastSampleTimeRef |-> 0, lastBpmUpdateTimeRef |-> 0,
     pendingBpmRef |-> DEFAULT_BPM * 1000,
     audioNow |-> SESSION_START_MS, sampled |-> <<>>, audioEvents |-> 0,
     error |-> "null", bpmAnalyzerRef |-> "null",
     audioLog |-> NoAudioLog, audioHist |-> NoAudioHist]

\* analyze(): one analyzer tick at time `now` on a flat spectrum of the given
\* level (every band equals the amplitude).
analyze(A, level, now) ==
    LET newFeatures ==
            [amplitude |-> level, bass |-> level, mid |-> level, treble |-> level]
        sampling == now - A.lastSampleTimeRef >= SAMPLE_INTERVAL_MS
    IN [A EXCEPT !.features = newFeatures,
                 !.audioNow = now,
                 !.audioEvents = @ + 1,
                 !.lastSampleTimeRef = IF sampling THEN now ELSE @,
                 !.adaptiveState = IF sampling THEN SampleUpdate(@, level) ELSE @,
                 !.sampled = IF sampling THEN Append(@, level) ELSE @]

\* bpmAnalyzer.on('bpm'): candidates is data.bpm, best candidate first.
onBpm(A, candidates, now) ==
    IF Len(candidates) = 0
    THEN [A EXCEPT !.audioNow = now, !.audioEvents = @ + 1]
    ELSE
    LET topResult == candidates[1]
        newBpm == topResult.tempo * 1000
        bpmDiff == Abs(newBpm - A.pendingBpmRef)
        accepted == bpmDiff <= BPM_JUMP_THRESHOLD * 1000
                      \/ A.pendingBpmRef = DEFAULT_BPM * 1000
        pending == IF accepted
                   THEN FloorDiv(A.pendingBpmRef * BPM_SMOOTHING
                                   + newBpm * (100 - BPM_SMOOTHING), 100)
                   ELSE A.pendingBpmRef
        publish == now - A.lastBpmUpdateTimeRef >= BPM_UPDATE_INTERVAL_MS
    IN [A EXCEPT !.audioNow = now,
                 !.audioEvents = @ + 1,
                 !.pendingBpmRef = pending,
                 !.lastBpmUpdateTimeRef = IF publish THEN now ELSE @,
                 !.adaptiveState =
                     IF publish
                     THEN [@ EXCEPT !.bpm = RoundDiv(pending, 1000),
                                    !.bpmConfidence = EventConfidence(topResult.count)]
                     ELSE @]

\* A variant of the stable handler that publishes under the rate limit of
\* the ordinary handler.
onBpmStableRateLimited(A, candidates, now) ==
    IF Len(candidates) = 0
    THEN [A EXCEPT !.audioNow = now, !.audioEvents = @ + 1]
    ELSE
    LET topResult == candidates[1]
        bpmDiff == Abs(topResult.tempo * 1000 - A.pendingBpmRef)
        pending == IF bpmDiff <= BPM_JUMP_THRESHOLD * 2 * 1000
                   THEN FloorDiv(A.pendingBpmRef * STABLE_SMOOTHING
                                   + topResult.tempo * 1000 * (100 - STABLE_SMOOTHING), 100)
                   ELSE A.pendingBpmRef
        publish == now - A.lastBpmUpdateTimeRef >= BPM_UPDATE_INTERVAL_MS
    IN [A EXCEPT !.audioNow = now,
                 !.audioEvents = @ + 1,
                 !.pendingBpmRef = pending,
                 !.lastBpmUpdateTimeRef = IF publish THEN now ELSE @,
                 !.adaptiveState =
                     IF publish
                     THEN [@ EXCEPT !.bpm = RoundDiv(pending, 1000),
                                    !.bpmConfidence = CONFIDENCE_FULL]
                     ELSE @]

\* bpmAnalyzer.on('bpmStable')
onBpmStable(A, candidates, now) ==
    IF Len(candidates) = 0
    THEN [A EXCEPT !.audioNow = now, !.audioEvents = @ + 1]
    ELSE
    LET topResult == candidates[1]
        bpmDiff == Abs(topResult.tempo * 1000 - A.pendingBpmRef)
        pending == IF bpmDiff <= BPM_JUMP_THRESHOLD * 2 * 1000
                   THEN FloorDiv(A.pendingBpmRef * STABLE_SMOOTHING
                                   + topResult.tempo * 1000 * (100 - STABLE_SMOOTHING), 100)
                   ELSE A.pendingBpmRef
    IN [A EXCEPT !.audioNow = now,
                 !.audioEvents = @ + 1,
                 !.pendingBpmRef = pending,
                 !.lastBpmUpdateTimeRef = 0,
                 !.adaptiveState = [@ EXCEPT !.bpm = RoundDiv(pending, 1000),
                                             !.bpmConfidence = CONFIDENCE_FULL]]

\* The normalizedFeatures the hook returns on every render.
normalizedFeatures ==
    [amplitude |-> normalizeValue(features.amplitude, adaptiveState.stats.min,
                                  adaptiveState.stats.max),
     bass |-> features.bass, mid |-> features.mid, treble |-> features.treble]

SetAudio(T) ==
    /\ isListening = T.isListening /\ features = T.features
    /\ adaptiveState = T.adaptiveState /\ lastSampleTimeRef = T.lastSampleTimeRef
    /\ lastBpmUpdateTimeRef = T.lastBpmUpdateTimeRef /\ pendingBpmRef = T.pendingBpmRef
    /\ audioNow = T.audioNow /\ sampled = T.sampled /\ audioEvents = T.audioEvents
    /\ error = T.error /\ bpmAnalyzerRef = T.bpmAnalyzerRef
    /\ audioLog = T.audioLog /\ audioHist = T.audioHist

NextAudioState(T) ==
    /\ isListening' = T.isListening /\ features' = T.features
    /\ adaptiveState' = T.adaptiveState /\ lastSampleTimeRef' = T.lastSampleTimeRef
    /\ lastBpmUpdateTimeRef' = T.lastBpmUpdateTimeRef /\ pendingBpmRef' = T.pendingBpmRef
    /\ audioNow' = T.audioNow /\ sampled' = T.sampled /\ audioEvents' = T.audioEvents
    /\ error' = T.error /\ bpmAnalyzerRef' = T.bpmAnalyzerRef
    /\ audioLog' = T.audioLog /\ audioHist' = T.audioHist

\* startListening: "granted" runs the whole body; "noDetector" is
\* createRealtimeBpmAnalyzer (or the wiring after it) throwing into the inner
\* catch; "denied" is getUserMedia rejecting into the outer catch.
StartOutcomes == {"granted", "noDetector", "denied"}
startListening(A, outcome) ==
    IF outcome = "denied"
    THEN [A EXCEPT !.error = "Microphone access denied"]
    ELSE [A EXCEPT !.isListening = TRUE,
                   !.error = "null",
                   !.bpmAnalyzerRef = IF outcome = "granted" THEN "running" ELSE @]

\* stopListening: bpmAnalyzerRef.current.stop() when there is a detector.
stopListening(A) ==
    [A EXCEPT !.isListening = FALSE,
              !.bpmAnalyzerRef = IF @ = "null" THEN @ ELSE "stopped"]

\* The state T a call leaves from the state A, with the call and what it
\* published written to the observation fields.
Observed(A, T, kind, level, candidates) ==
    [T EXCEPT
       !.audioLog = [kind |-> kind, level |-> level, candidates |-> candidates,
                     pendingBefore |-> A.pendingBpmRef,
                     confidentBefore |-> A.audioHist.confidentSeen,
                     lastPublishBefore |-> A.lastBpmUpdateTimeRef],
       !.audioHist =
          [confidentSeen |-> A.audioHist.confidentSeen
                               \/ 10 * T.adaptiveState.bpmConfidence > 3 * CONFIDENCE_FULL,
           lastChangeAt |->
               IF kind \in {"tick", "bpm"} /\ T.adaptiveState.bpm # A.adaptiveState.bpm
               THEN T.audioNow ELSE A.audioHist.lastChangeAt]]

StartStep(A, outcome) ==
    Observed(A, startListening(A, outcome), outcome, 0, <<>>)
StopStep(A) == Observed(A, stopListening(A), "stop", 0, <<>>)
TickStep(A, level, dt) ==
    Observed(A, analyze(A, level, A.audioNow + dt), "tick", level, <<>>)
BpmStep(A, candidates, dt) ==
    Observed(A, onBpm(A, candidates, A.audioNow + dt), "bpm", 0, candidates)
BpmStableStep(A, candidates, dt) ==
    Observed(A, onBpmStable(A, candidates, A.audioNow + dt), "bpmStable", 0, candidates)

\* Spectrum levels of a tick: silence, the near-silence floor, half and
\* full scale.
Levels == {0, 20, 500, 1000}
\* Time from the previous callback of the hook to a tick, ms: less and more
\* than one SAMPLE_INTERVAL_MS.
AudioDeltas == {50, 150}
\* Time from the previous callback to a tempo event, ms.  The first event is
\* more than one BPM_UPDATE_INTERVAL_MS after lastBpmUpdateTimeRef's
\* initial 0, the next ones less than one after the first.
EventDeltas == {50}
\* What the tempo detector reports: no candidate, or one best candidate:
\* two tempos an octave apart with a support count below 100, the upper one
\* and DEFAULT_BPM itself with a support count above 100.
CandidateLists ==
    {<<>>,
     <<[tempo |-> 70, count |-> 50]>>, <<[tempo |-> 140, count |-> 50]>>,
     <<[tempo |-> 140, count |-> 250]>>, <<[tempo |-> DEFAULT_BPM, count |-> 250]>>}

\* A listening session one sample short of a full history, replayed with
\* analyze itself: a tick every SAMPLE_INTERVAL_MS on a varying level.
SessionLevel(k) == (k * 7) % (AMPLITUDE_FULL + 1)
SessionStep(A, k) == analyze(A, SessionLevel(k), A.audioNow + SAMPLE_INTERVAL_MS)
RECURSIVE SessionRun(_, _, _)
SessionRun(A, lo, hi) ==
    IF lo > hi THEN A
    ELSE IF lo = hi THEN SessionStep(A, lo)
    ELSE LET mid == (lo + hi) \div 2
             T == SessionRun(A, lo, mid)
         IN  IF T.audioEvents >= 0 THEN SessionRun(T, mid + 1, hi) ELSE T
LongSession(samples) ==
    [SessionRun(startListening(AudioMount, "granted"), 1, samples)
       EXCEPT !.audioEvents = 0]

\* Two more sessions, replayed with the hook's own handlers.
\* "fading": three stable events establish a tempo well above DEFAULT_BPM
\* with full confidence, then silence until one decay is left.
\* "constant": MAX_SAMPLES samples of the same half-scale level.
\* "silenced": the fading session followed by SilencedTicks more ticks of
\* silence, which decay the confidence to 0 and pull the tempo back.
FadingTicks == CONFIDENCE_FULL \div CONFIDENCE_DECAY - 1
SilencedTicks == 10
ScenarioLength(scenario) ==
    IF scenario = "fading" THEN 3 + FadingTicks
    ELSE IF scenario = "silenced" THEN 3 + FadingTicks + SilencedTicks
    ELSE MAX_SAMPLES
ScenarioStep(A, scenario, k) ==
    IF scenario \in {"fading", "silenced"}
    THEN IF k <= 3
         THEN BpmStableStep(A, <<[tempo |-> 140, count |-> 250]>>, BPM_UPDATE_INTERVAL_MS)
         ELSE TickStep(A, 0, SAMPLE_INTERVAL_MS)
    ELSE TickStep(A, AMPLITUDE_FULL \div 2, SAMPLE_INTERVAL_MS)
RECURSIVE ScenarioRun(_, _, _, _)
ScenarioRun(A, scenario, lo, hi) ==
    IF lo > hi THEN A
    ELSE IF lo = hi THEN ScenarioStep(A, scenario, lo)
    ELSE LET mid == (lo + hi) \div 2
             T == ScenarioRun(A, scenario, lo, mid)
         IN  IF T.audioEvents >= 0 THEN ScenarioRun(T, scenario, mid + 1, hi) ELSE T
Session(scenario) ==
    [ScenarioRun(StartStep(AudioMount, "granted"), scenario, 1, ScenarioLength(scenario))
       EXCEPT !.audioEvents = 0]

\* ======================================================= spatial index
\* BLOB_INFLUENCE_RADIUS: particles within this distance are neighbours, px
BLOB_INFLUENCE_RADIUS == 80
\* SPATIAL_HASH_CELL_SIZE: the cell size the engine constructs its index with
SPATIAL_HASH_CELL_SIZE == 100

\* A variant that truncates toward zero instead of flooring.
getKeyTruncated(cellSize, x, y) ==
    <<IF x < 0 THEN -((-x) \div cellSize) ELSE x \div cellSize,
      IF y < 0 THEN -((-y) \div cellSize) ELSE y \div cellSize>>
\* SpatialHash.getKey: the cell of a position (the Map key `${cellX},${cellY}`
\* is the pair of the two floors).
getKey(cellSize, x, y) == <<FloorDiv(x, cellSize), FloorDiv(y, cellSize)>>

\* new SpatialHash(cellSize): an empty Map.
EmptyCells == <<>>

\* The loop of rebuild from index i on: create the cell if it is missing,
\* push the index.  Index i here is index i - 1 of the source array.
RECURSIVE InsertFrom(_, _, _, _)
InsertFrom(cells, cellSize, bs, i) ==
    IF i > Len(bs) THEN cells
    ELSE LET key == getKey(cellSize, bs[i].x, bs[i].y)
             cell == IF key \in DOMAIN cells THEN cells[key] ELSE <<>>
             pushed == [k \in DOMAIN cells \cup {key} |->
                           IF k = key THEN Append(cell, i) ELSE cells[k]]
         IN  InsertFrom(pushed, cellSize, bs, i + 1)

\* A variant that keeps the cells of the previous rebuild.
rebuildNoClear(cells, cellSize, bs) == InsertFrom(cells, cellSize, bs, 1)

\* SpatialHash.rebuild: this.cells.clear(), then the loop.
rebuild(cells, cellSize, bs) == InsertFrom(EmptyCells, cellSize, bs, 1)

\* The 3x3 scan of getNeighborIndices from its n-th cell on (dx outer, dy
\* inner, both from -1 to 1): result.push(...cell) for every cell present.
RECURSIVE ScanFrom(_, _, _, _)
ScanFrom(cells, cellX, cellY, n) ==
    IF n >= 9 THEN <<>>
    ELSE LET key == <<cellX + (n \div 3) - 1, cellY + (n % 3) - 1>>
         IN  (IF key \in DOMAIN cells THEN cells[key] ELSE <<>>)
               \o ScanFrom(cells, cellX, cellY, n + 1)

\* A variant whose outer loop starts at dx = 0.
getNeighborIndicesForward(cells, cellSize, x, y) ==
    ScanFrom(cells, FloorDiv(x, cellSize), FloorDiv(y, cellSize), 3)

\* SpatialHash.getNeighborIndices
getNeighborIndices(cells, cellSize, x, y) ==
    ScanFrom(cells, FloorDiv(x, cellSize), FloorDiv(y, cellSize), 0)

\* The callers' distance filter, squared: dx * dx + dy * dy against R * R.
DistanceSq(b, x, y) == (b.x - x) * (b.x - x) + (b.y - y) * (b.y - y)
\* The neighbours the O(n^2) branch of the callers finds: every index.
NaiveNeighbors(bs, x, y) ==
    {i \in 1..Len(bs) :
        DistanceSq(bs[i], x, y) <= BLOB_INFLUENCE_RADIUS * BLOB_INFLUENCE_RADIUS}

VARIABLES
    hashCellSize,         \* SpatialHash.cellSize
    hashCells,            \* SpatialHash.cells: cell key -> indices
    hashBlobs,            \* the particle array the index is used with
    hashFresh,            \* no position changed since the last rebuild
    hashLog               \* the last call on the index and what it returned

hashVars == <<hashCellSize, hashCells, hashBlobs, hashFresh, hashLog>>

\* Cell sizes not below the influence radius: the radius itself and the
\* engine's own.
CellSizes == {BLOB_INFLUENCE_RADIUS, SPATIAL_HASH_CELL_SIZE}
\* Positions on both sides of zero, on cell boundaries of both cell sizes,
\* and pairs exactly one radius apart.
Positions ==
    {[x |-> -80, y |-> 0], [x |-> -1, y |-> -1], [x |-> 0, y |-> 0],
     [x |-> 79, y |-> 99], [x |-> 100, y |-> 100], [x |-> 180, y |-> 100]}
QueryPoints == Positions \cup {[x |-> 40, y |-> -60]}
ParticleArrays == UNION {[1..n -> Positions] : n \in 0..MaxHashBlobs}

NoHashLog ==
    [kind |-> "new", again |-> FALSE, x |-> 0, y |-> 0, result |-> <<>>,
     frames |-> 0, deltaMs |-> 0, change |-> "none",
     viaIndex |-> <<>>, viaScan |-> <<>>]

\* The index of a mounted engine: constructed, nothing inserted.
HashMount(cellSize, bs) ==
    /\ hashCellSize = cellSize /\ hashCells = EmptyCells /\ hashBlobs = bs
    /\ hashFresh = FALSE /\ hashLog = NoHashLog

\* spatialHashRef.current.rebuild(blobs)
HashRebuild ==
    /\ hashCells' = rebuild(hashCells, hashCellSize, hashBlobs)
    /\ hashFresh' = TRUE
    /\ hashLog' = [NoHashLog EXCEPT !.kind = "rebuild", !.again = hashFresh]
    /\ UNCHANGED <<hashCellSize, hashBlobs>>
    /\ UNCHANGED <<engineVars, audioVars, sessionVars>>

\* spatialHashRef.current.getNeighborIndices(x, y)
HashQuery ==
    /\ \E q \in QueryPoints :
         hashLog' = [NoHashLog EXCEPT
                        !.kind = "query", !.x = q.x, !.y = q.y,
                        !.result = getNeighborIndices(hashCells, hashCellSize, q.x, q.y)]
    /\ UNCHANGED <<hashCellSize, hashCells, hashBlobs, hashFresh>>
    /\ UNCHANGED <<engineVars, audioVars, sessionVars>>

\* The frame loop moves a particle in place (blob.x = ..., blob.y = ...)
\* between two rebuilds; one particle per rebuild is followed here.
HashMove ==
    /\ hashFresh
    /\ \E i \in 1..Len(hashBlobs), p \in Positions :
         /\ p # hashBlobs[i]
         /\ hashBlobs' = [hashBlobs EXCEPT ![i] = p]
    /\ hashFresh' = FALSE
    /\ hashLog' = [NoHashLog EXCEPT !.kind = "move"]
    /\ UNCHANGED <<hashCellSize, hashCells>>
    /\ UNCHANGED <<engineVars, audioVars, sessionVars>>

\* ------------------------------------------------------------- inputs
\* Time between two frames the host delivers, ms: a 60 Hz frame, a slow
\* frame, and a frame after the tab was in the background.
Deltas == {16, 250, 5000}
\* The first frame's timestamp is the frame's start time, which can lie
\* before the performance.now() reading the mount effect stored in
\* lastFrameRef: the first deltaMs can be negative.  A first frame 4.9 s
\* after mount falls into the last second of seeding.
FirstDeltas == Deltas \cup {-5, 4900}
\* performance.now() at mount
MountTimes == {1000}
Viewports == {[width |-> 1200, height |-> 800], [width |-> 0, height |-> 0]}
\* The audio props of a render: intensity and bass in tenths, tempo in BPM.
AudioInputs ==
    {[intensity |-> 0, bass |-> 0, bpm |-> 120],
     [intensity |-> 9, bass |-> 10, bpm |-> 150]}

\* ----------------------------------------------------- initial states
\* The state after mount: SEED_BLOBS_INITIAL particles, timing refs set by
\* the mount effect.
MountState(t, vp) ==
    [blobs |-> [i \in 1..SEED_BLOBS_INITIAL |-> createBlob(i)],
     viewport |-> vp, isPaused |-> FALSE,
     populationRef |-> 50, elapsedRef |-> 0, lastFrameRef |-> t,
     lastSpawnRef |-> 0, lastDeathRef |-> 0,
     seedingStartTimeRef |-> t, lastSeedSecondRef |-> 0,
     perfNow |-> t, nextId |-> SEED_BLOBS_INITIAL + 1, frames |-> 0, log |-> NoLog]

SetEngine(T) ==
    /\ blobs = T.blobs /\ viewport = T.viewport /\ isPaused = T.isPaused
    /\ populationRef = T.populationRef /\ elapsedRef = T.elapsedRef
    /\ lastFrameRef = T.lastFrameRef /\ lastSpawnRef = T.lastSpawnRef
    /\ lastDeathRef = T.lastDeathRef /\ seedingStartTimeRef = T.seedingStartTimeRef
    /\ lastSeedSecondRef = T.lastSeedSecondRef /\ perfNow = T.perfNow
    /\ nextId = T.nextId /\ frames = T.frames /\ log = T.log

NextEngine(T) ==
    /\ blobs' = T.blobs /\ viewport' = T.viewport /\ isPaused' = T.isPaused
    /\ populationRef' = T.populationRef /\ elapsedRef' = T.elapsedRef
    /\ lastFrameRef' = T.lastFrameRef /\ lastSpawnRef' = T.lastSpawnRef
    /\ lastDeathRef' = T.lastDeathRef /\ seedingStartTimeRef' = T.seedingStartTimeRef
    /\ lastSeedSecondRef' = T.lastSeedSecondRef /\ perfNow' = T.perfNow
    /\ nextId' = T.nextId /\ frames' = T.frames /\ log' = T.log

InitMount == \E t \in MountTimes, vp \in Viewports : SetEngine(MountState(t, vp))

\* A long session, replayed with animate itself: loud fast music, and a
\* three-frame cycle in which every particle leaves the edge bound during a
\* 5 s frame (all are marked dying), a 250 ms frame spawns one particle
\* while almost nothing is non-dying, and a 5 s frame recycles the rest.
\* The array grows by at least one particle per cycle until it holds
\* HARD_CAP_LIMIT particles, all but one of them dying at full lifecycle.
GrowAudio == [intensity |-> 9, bass |-> 10, bpm |-> 150]
GrowDelta(k) == IF k % 3 = 2 THEN 250 ELSE 5000
GrowMove(k) == IF k % 3 = 1 THEN [who |-> "all", off |-> 0] ELSE [who |-> "none", off |-> 0]
Primed(S) ==
    /\ Len(S.blobs) = HARD_CAP_LIMIT
    /\ AliveCount(S.blobs) < SOFT_CAP_START
    /\ \A i \in 1..Len(S.blobs) :
          S.blobs[i].dying => S.blobs[i].lifecycle = LIFECYCLE_FULL
GrowStep(S, k) ==
    IF Primed(S) THEN S
    ELSE animate(S, S.lastFrameRef + GrowDelta(k), GrowAudio, GrowMove(k), 0)
\* frames lo..hi of the session, by halves
RECURSIVE GrowRun(_, _, _)
GrowRun(S, lo, hi) ==
    IF lo > hi THEN S
    ELSE IF lo = hi THEN GrowStep(S, lo)
    ELSE LET mid == (lo + hi) \div 2
             T == GrowRun(S, lo, mid)
         IN  IF T.populationRef >= 0 THEN GrowRun(T, mid + 1, hi) ELSE T
\* one cycle per particle is enough
GrowFrames == 3 * HARD_CAP_LIMIT
GrownState(growFrames) ==
    GrowRun(MountState(1000, [width |-> 1200, height |-> 800]), 1, growFrames)
\* The session's state, with one more frame to explore.
InitGrown == SetEngine([GrownState(GrowFrames) EXCEPT !.frames = MaxFrames - 1])

\* ------------------------------------------------------------ actions
\* One animation frame.
\* A paused frame returns before it reads the audio props, moves a particle
\* or draws a random number: one value of each input stands for all of them.
FrameInputs(S) == IF isPaused THEN {CHOOSE x \in S : TRUE} ELSE S

\* The timestamp the host gave the previous frame; before the first frame,
\* the performance.now() reading of the mount effect.
PreviousTimestamp == IF log.kind \in {"frame", "paused"} THEN log.timestamp ELSE lastFrameRef

Frame ==
    /\ frames < MaxFrames
    /\ \E d \in (IF frames = 0 THEN FirstDeltas ELSE Deltas),
          audio \in FrameInputs(AudioInputs), mv \in FrameInputs(MovePatterns),
          rnd \in FrameInputs(Rand) :
         NextEngine(animate(EngineState, PreviousTimestamp + d, audio, mv, rnd))
    /\ UNCHANGED <<audioVars, hashVars, sessionVars>>

\* handleResize: the layout reports a new viewport.
Resize ==
    /\ frames < MaxFrames
    /\ \E vp \in Viewports \ {viewport} : viewport' = vp
    /\ UNCHANGED <<blobs, isPaused, populationRef, elapsedRef, lastFrameRef,
                   lastSpawnRef, lastDeathRef, seedingStartTimeRef,
                   lastSeedSecondRef, perfNow, nextId, frames, log>>
    /\ UNCHANGED <<audioVars, hashVars, sessionVars>>

\* handleBackgroundClick: toggle pause.
TogglePause ==
    /\ frames < MaxFrames
    /\ isPaused' = ~isPaused
    /\ UNCHANGED <<blobs, viewport, populationRef, elapsedRef, lastFrameRef,
                   lastSpawnRef, lastDeathRef, seedingStartTimeRef,
                   lastSeedSecondRef, perfNow, nextId, frames, log>>
    /\ UNCHANGED <<audioVars, hashVars, sessionVars>>

\* One frame of a held session: the particles stay where they are.
HeldFrame ==
    /\ frames < MaxSessionFrames
    /\ NextEngine(animate(EngineState, lastFrameRef + held.deltaMs, held.audio,
                          [who |-> "none", off |-> 0], 0))
    /\ UNCHANGED <<audioVars, hashVars, sessionVars>>

vars == <<engineVars, audioVars, hashVars, sessionVars>>

Init ==
    /\ InitMount \/ InitGrown
    /\ SetAudio(AudioMount)
    /\ HashMount(SPATIAL_HASH_CELL_SIZE, <<>>)
    /\ held = NoHeld /\ rotation = RotationMount /\ rotationLog = NoRotationLog
    /\ gravity = GravityMount(1000) /\ gravityLog = NoGravityLog
    /\ StartMount
    /\ heldSignal = NoSignal
Next == Frame \/ Resize \/ TogglePause
Spec == Init /\ [][Next]_vars

\* ------------------------------------------------- analyzer actions
\* startListening, with each of its outcomes.
StartListening ==
    /\ ~isListening /\ audioEvents < MaxAudioEvents
    /\ \E outcome \in StartOutcomes :
         NextAudioState(StartStep(AudioState, outcome))
    /\ UNCHANGED <<engineVars, hashVars, sessionVars>>

\* stopListening
StopListening ==
    /\ isListening /\ audioEvents < MaxAudioEvents
    /\ NextAudioState(StopStep(AudioState))
    /\ UNCHANGED <<engineVars, hashVars, sessionVars>>

\* One analyzer tick (the analysis loop runs while listening).
Tick ==
    /\ isListening /\ audioEvents < MaxAudioEvents
    /\ \E level \in Levels, dt \in AudioDeltas :
         NextAudioState(TickStep(AudioState, level, dt))
    /\ UNCHANGED <<engineVars, hashVars, sessionVars>>

\* An ordinary tempo event of the session's detector.
BpmEvent ==
    /\ isListening /\ bpmAnalyzerRef = "running" /\ audioEvents < MaxAudioEvents
    /\ \E candidates \in CandidateLists, dt \in EventDeltas :
         NextAudioState(BpmStep(AudioState, candidates, dt))
    /\ UNCHANGED <<engineVars, hashVars, sessionVars>>

\* A stable tempo event of the session's detector.
BpmStableEvent ==
    /\ isListening /\ bpmAnalyzerRef = "running" /\ audioEvents < MaxAudioEvents
    /\ \E candidates \in CandidateLists, dt \in EventDeltas :
         NextAudioState(BpmStableStep(AudioState, candidates, dt))
    /\ UNCHANGED <<engineVars, hashVars, sessionVars>>

InitAudio ==
    /\ SetEngine(MountState(1000, [width |-> 1200, height |-> 800]))
    /\ \/ SetAudio(AudioMount) \/ SetAudio(LongSession(MAX_SAMPLES - 1))
       \/ SetAudio(Session("fading")) \/ SetAudio(Session("constant"))
    /\ HashMount(SPATIAL_HASH_CELL_SIZE, <<>>)
    /\ held = NoHeld /\ rotation = RotationMount /\ rotationLog = NoRotationLog
    /\ gravity = GravityMount(1000) /\ gravityLog = NoGravityLog
    /\ StartMount
    /\ heldSignal = NoSignal
NextAudio == StartListening \/ StopListening \/ Tick \/ BpmEvent \/ BpmStableEvent
SpecAudio == InitAudio /\ [][NextAudio]_vars

\* ---------------------------------------------- spatial index behaviours
\* An index of either cell size, used with every particle array of up
\* to MaxHashBlobs particles.
\* A held session from mount on.  The animation loop re-arms itself with
\* requestAnimationFrame in every frame, so frames keep arriving.
InitSession ==
    /\ SetEngine(MountState(1000, [width |-> 1200, height |-> 800]))
    /\ SetAudio(AudioMount)
    /\ HashMount(SPATIAL_HASH_CELL_SIZE, <<>>)
    /\ \E p \in HeldPeriods, a \in HeldAudio : held = [deltaMs |-> p, audio |-> a]
    /\ rotation = RotationMount /\ rotationLog = NoRotationLog
    /\ gravity = GravityMount(1000) /\ gravityLog = NoGravityLog
    /\ StartMount
    /\ heldSignal = NoSignal
NextSession == HeldFrame
\* The next frame callback runs: the step every HeldFrame step is, and the
\* steps of NextSession of this kind are exactly the HeldFrame steps.
FrameArrives == frames < MaxSessionFrames /\ frames' = frames + 1
SpecSession == InitSession /\ [][NextSession]_vars /\ WF_frames(FrameArrives)

\* A held session from mount on, with the counter-rotation followed and the
\* window resized during it.
RotationPeriods == {1000, 5000}
RotationViewports ==
    {[width |-> 1200, height |-> 800], [width |-> 0, height |-> 800],
     [width |-> 0, height |-> 0]}
RotationFrame ==
    /\ frames < MaxRotationFrames
    /\ LET timestamp == lastFrameRef + held.deltaMs
           tracked == trackRotation(rotation, Max(timestamp, perfNow),
                                    held.audio.intensity)
       IN /\ NextEngine(animate(EngineState, timestamp, held.audio,
                                [who |-> "none", off |-> 0], 0))
          /\ rotation' = IF isPaused THEN rotation ELSE tracked
          /\ rotationLog' =
                IF isPaused THEN rotationLog
                ELSE counterRotate(tracked.rotationSpeedRef, viewport, rotationLog.resizes)
    /\ UNCHANGED <<audioVars, hashVars, held, heldSignal, gravityVars, startVars>>
RotationResize ==
    /\ frames < MaxRotationFrames /\ rotationLog.resizes < MaxResizes
    /\ \E vp \in RotationViewports \ {viewport} : viewport' = vp
    /\ rotationLog' = [rotationLog EXCEPT !.resizes = @ + 1]
    /\ UNCHANGED <<blobs, isPaused, populationRef, elapsedRef, lastFrameRef,
                   lastSpawnRef, lastDeathRef, seedingStartTimeRef,
                   lastSeedSecondRef, perfNow, nextId, frames, log>>
    /\ UNCHANGED <<audioVars, hashVars, held, heldSignal, rotation, gravityVars, startVars>>
InitRotation ==
    /\ SetEngine(MountState(1000, [width |-> 1200, height |-> 800]))
    /\ SetAudio(AudioMount)
    /\ HashMount(SPATIAL_HASH_CELL_SIZE, <<>>)
    /\ \E p \in RotationPeriods, a \in HeldAudio : held = [deltaMs |-> p, audio |-> a]
    /\ rotation = RotationMount /\ rotationLog = NoRotationLog
    /\ gravity = GravityMount(1000) /\ gravityLog = NoGravityLog
    /\ StartMount
    /\ heldSignal = NoSignal
NextRotation == RotationFrame \/ RotationResize
SpecRotation == InitRotation /\ [][NextRotation]_vars

InitHash ==
    /\ SetEngine(MountState(1000, [width |-> 1200, height |-> 800]))
    /\ SetAudio(AudioMount)
    /\ \E cellSize \in CellSizes, bs \in ParticleArrays : HashMount(cellSize, bs)
    /\ held = NoHeld /\ rotation = RotationMount /\ rotationLog = NoRotationLog
    /\ gravity = GravityMount(1000) /\ gravityLog = NoGravityLog
    /\ StartMount
    /\ heldSignal = NoSignal
NextHash == HashRebuild \/ HashQuery \/ HashMove
SpecHash == InitHash /\ [][NextHash]_vars

\* ================================================== particle field claims
\* The step is an animate call that ran the frame pipeline.
RanFrame == frames' = frames + 1 /\ log'.kind = "frame"
\* The step is an animate call, paused or not.
RanAnimate == frames' = frames + 1

\* C1: at the end of every frame after seeding, the population (the array
\* length, as recorded in populationRef) is within
\* [MIN_POPULATION, HARD_CAP_LIMIT].
PopulationWithinBounds ==
    (log.kind = "frame" /\ ~log.isSeeding) =>
        /\ populationRef = Len(blobs)
        /\ MIN_POPULATION <= populationRef
        /\ populationRef <= HARD_CAP_LIMIT
\* C1's case: a frame after seeding pushed the array past the hard cap and
\* the cull brought it back to HARD_CAP_TARGET.
PopulationCulledToTarget ==
    /\ log.kind = "frame" /\ ~log.isSeeding /\ log.culled
    /\ populationRef = HARD_CAP_TARGET

\* C2 as stated: after seeding the non-dying count is never below
\* MIN_POPULATION, and a frame whose non-dying count is at or below the floor
\* marks no particle dying, neither by age nor at the edge.
AliveFloorHeld ==
    (log.kind = "frame" /\ ~log.isSeeding) =>
        /\ AliveCount(blobs) >= MIN_POPULATION
        /\ log.aliveAtDeathCheck <= MIN_POPULATION =>
              log.ageMarked = {} /\ log.edgeOut = {}
\* C2, amended: the age-based death decision marks at most one particle and
\* only while more than MIN_POPULATION particles are non-dying, so it never
\* takes the non-dying count below the floor; the array length stays at or
\* above MIN_POPULATION.  (Edge marking is not limited by the floor.)
AgeDeathRespectsFloor ==
    log.kind = "frame" =>
        /\ log.ageMarked # {} =>
              /\ log.shouldKillOldest
              /\ log.aliveAtDeathCheck > MIN_POPULATION
              /\ Cardinality(log.ageMarked) = 1
        /\ Len(blobs) >= MIN_POPULATION
\* C2's case: after seeding a death decision is due while the non-dying
\* count is at or below the floor; it marks nothing, the edge check does.
DeathDueAtFloor ==
    /\ log.kind = "frame" /\ ~log.isSeeding
    /\ log.shouldKillOldest /\ log.aliveAtDeathCheck <= MIN_POPULATION
    /\ log.ageMarked = {} /\ log.edgeOut # {}

\* C3 as stated: at the end of every frame every particle's lifecycle is
\* within [0, 1], whatever the frame's time delta.
LifecycleInRange ==
    \A i \in 1..Len(blobs) :
        0 <= blobs[i].lifecycle /\ blobs[i].lifecycle <= LIFECYCLE_FULL

\* C4 as stated: between two consecutive non-paused frames a dying
\* particle's lifecycle does not increase and strictly decreases until 0; a
\* non-dying particle's does not decrease and strictly increases until 1.
LifecycleMonotone ==
    [][(RanFrame /\ log.kind = "frame") =>
         \A i \in 1..Len(blobs) : \A j \in 1..Len(blobs') :
            blobs'[j].id = blobs[i].id =>
               IF blobs[i].dying
               THEN /\ blobs'[j].lifecycle <= blobs[i].lifecycle
                    /\ \/ blobs'[j].lifecycle < blobs[i].lifecycle
                       \/ blobs'[j].lifecycle = 0
               ELSE /\ blobs'[j].lifecycle >= blobs[i].lifecycle
                    /\ \/ blobs'[j].lifecycle > blobs[i].lifecycle
                       \/ blobs'[j].lifecycle = LIFECYCLE_FULL]_vars

\* C5: a particle is recycled in a frame (it is still in the array and its
\* age is 0 again) only if, after that frame's lifecycle step, it is dying
\* and its lifecycle is at or below LIFECYCLE_REMOVE_THRESHOLD.
RecycledOnlyWhenDead ==
    [][RanFrame =>
         \A j \in 1..Len(blobs') : blobs'[j].age = 0 =>
            \A i \in 1..Len(blobs) : blobs[i].id = blobs'[j].id =>
               /\ blobs[i].dying
               /\ Max(0, blobs[i].lifecycle - LIFECYCLE_FADE_RATE * log'.deltaMs)
                     <= LIFECYCLE_REMOVE_THRESHOLD]_vars
\* C5's case: a frame recycled some particle while another dying particle,
\* above the threshold, was left to fade.
RecycledSomeNotAll ==
    /\ log.kind = "frame" /\ log.recycled # {}
    /\ \E i \in 1..Len(blobs) :
          blobs[i].dying /\ blobs[i].lifecycle > LIFECYCLE_REMOVE_THRESHOLD

\* C6: a frame in which the hard-cap cull does not fire removes nothing:
\* every particle is still at its index and the array is no shorter.
NoRemovalWithoutCull ==
    [][(RanAnimate /\ ~log'.culled) =>
         /\ Len(blobs') >= Len(blobs)
         /\ \A i \in 1..Len(blobs) : blobs'[i].id = blobs[i].id]_vars
\* C6's case: a frame without cull recycled particles and spawned new ones.
RecycledAndSpawnedNoCull ==
    /\ log.kind = "frame" /\ ~log.culled
    /\ log.recycled # {} /\ log.spawned > 0

\* C7 as stated: a non-dying particle outside the expanded viewport bound at
\* a frame's edge check is dying and still in the array at the end of that
\* frame, and its lifecycle decreases in the next non-paused frame.
EdgeExitFades ==
    [][log.kind = "frame" =>
         /\ \A id \in log.edgeOut :
               \E i \in 1..Len(blobs) : blobs[i].id = id /\ blobs[i].dying
         /\ RanFrame =>
               \A i \in 1..Len(blobs) :
                  blobs[i].id \in log.edgeOut =>
                     \A j \in 1..Len(blobs') :
                        blobs'[j].id = blobs[i].id =>
                           blobs'[j].lifecycle < blobs[i].lifecycle]_vars
\* C7, the first half alone: the particle is in the array, dying, at the end
\* of the frame that found it outside the bound.
EdgeExitKept ==
    log.kind = "frame" =>
        \A id \in log.edgeOut :
            \E i \in 1..Len(blobs) : blobs[i].id = id /\ blobs[i].dying

\* ========================================================= analyzer claims
\* C8: after every analyzer tick the published smoothed intensity is within
\* [0, 1].
IntensityInUnitRange ==
    /\ 0 <= adaptiveState.smoothedIntensity
    /\ adaptiveState.smoothedIntensity <= INTENSITY_FULL
\* C8's case: a sampling tick on rising energy, where the normalized
\* amplitude plus the derivative boost exceeds 1 before the clamp.
IntensityClampActive ==
    /\ Len(sampled) > 0
    /\ Len(adaptiveState.energyHistory) >= ENERGY_MIN_HISTORY
    /\ normalizeValue(sampled[Len(sampled)], adaptiveState.stats.min,
                      adaptiveState.stats.max)
         + DerivativeBoost(sampled[Len(sampled)], adaptiveState.energyHistory)
           > INTENSITY_FULL
    /\ adaptiveState.smoothedIntensity > 0

\* C9: after every interleaving of tempo events, stable tempo events and
\* analyzer ticks the published tempo confidence is within [0, 1].
ConfidenceInUnitRange ==
    /\ 0 <= adaptiveState.bpmConfidence
    /\ adaptiveState.bpmConfidence <= CONFIDENCE_FULL
\* C9's case: an ordinary tempo event published a full confidence (its
\* support count was 100 or more) and a quiet tick then decayed it once.
ConfidenceDecayedAfterEvent ==
    /\ lastBpmUpdateTimeRef > 0
    /\ adaptiveState.bpmConfidence = CONFIDENCE_FULL - CONFIDENCE_DECAY

\* C10: after every tick the amplitude history holds at most MAX_SAMPLES
\* entries and equals, in arrival order, the most recent min(n, MAX_SAMPLES)
\* of the n amplitudes sampled so far.
HistoryIsRecentSamples ==
    LET n == Len(sampled)
        k == Min(n, MAX_SAMPLES)
    IN /\ Len(adaptiveState.amplitudeHistory) <= MAX_SAMPLES
       /\ adaptiveState.amplitudeHistory = SubSeq(sampled, n - k + 1, n)
\* C10's case: more than MAX_SAMPLES amplitudes have been sampled and the
\* history is full.
HistoryEvicted ==
    /\ Len(sampled) > MAX_SAMPLES
    /\ Len(adaptiveState.amplitudeHistory) = MAX_SAMPLES

\* ==================================================== spatial index claims
\* C11: right after rebuild(particles), getNeighborIndices(x, y) lists the
\* index of every particle within BLOB_INFLUENCE_RADIUS of (x, y), for
\* either cell size, negative coordinates and cell boundaries included.
NeighborsAreCandidates ==
    (hashLog.kind = "query" /\ hashFresh) =>
        NaiveNeighbors(hashBlobs, hashLog.x, hashLog.y)
            \subseteq {hashLog.result[k] : k \in 1..Len(hashLog.result)}

\* A query at a non-negative position that returned a neighbour lying at a
\* negative position in another cell, exactly one radius away.
NeighborAcrossZero ==
    /\ hashLog.kind = "query" /\ hashFresh
    /\ hashLog.x = 0 /\ hashLog.y = 0
    /\ \E k \in 1..Len(hashLog.result) :
         /\ hashBlobs[hashLog.result[k]].x = -BLOB_INFLUENCE_RADIUS
         /\ hashBlobs[hashLog.result[k]].y = 0

\* C12: a rebuild that directly follows a rebuild of the same array leaves
\* every query result as it was, and no result lists an index twice.
RebuildIdempotent ==
    [][(hashLog'.kind = "rebuild" /\ hashFresh) =>
         \A q \in QueryPoints :
            LET before == getNeighborIndices(hashCells, hashCellSize, q.x, q.y)
                after == getNeighborIndices(hashCells', hashCellSize', q.x, q.y)
            IN  /\ after = before
                /\ \A j, k \in 1..Len(after) : after[j] = after[k] => j = k]_vars

\* A second rebuild in a row of an array with two particles in one cell,
\* after which a query still finds both.
RebuiltTwice ==
    /\ hashLog.kind = "rebuild" /\ hashLog.again
    /\ Len(hashBlobs) >= 2
    /\ \E q \in QueryPoints :
         Len(getNeighborIndices(hashCells, hashCellSize, q.x, q.y)) >= 2



\* ================================================== tempo and session claims
\* The 3% blend of an ordinary event and the 30% blend of a stable event,
\* on a pending tempo and a candidate in thousandths of a BPM.
OrdinaryBlend(pending, tempo) ==
    (pending * BPM_SMOOTHING + tempo * (100 - BPM_SMOOTHING)) \div 100
StableBlend(pending, tempo) ==
    (pending * STABLE_SMOOTHING + tempo * (100 - STABLE_SMOOTHING)) \div 100
\* The best candidate of the event the step (or the state) is about.
TopTempo(entry) == entry.candidates[1].tempo * 1000

\* C13: an ordinary tempo event whose candidate is more than
\* BPM_JUMP_THRESHOLD away from the pending tempo leaves the pending tempo
\* unchanged, unless no confident estimate has been published yet, in which
\* case the candidate is blended into it.
FarCandidateGuarded ==
    [][(/\ audioLog'.kind = "bpm" /\ Len(audioLog'.candidates) > 0
        /\ Abs(TopTempo(audioLog') - pendingBpmRef) > BPM_JUMP_THRESHOLD * 1000)
       => IF audioHist.confidentSeen
          THEN pendingBpmRef' = pendingBpmRef
          ELSE pendingBpmRef' = OrdinaryBlend(pendingBpmRef, TopTempo(audioLog'))]_vars

\* C14: from the initial state, the events {70, 50} and then {140, 50} both
\* change the pending tempo, and the tempo published after them lies
\* strictly between 70 and 140.
OctavePairBothAccepted ==
    [][(/\ audioLog.kind = "bpm" /\ audioLog'.kind = "bpm"
        /\ audioLog.candidates = <<[tempo |-> 70, count |-> 50]>>
        /\ audioLog'.candidates = <<[tempo |-> 140, count |-> 50]>>
        /\ audioLog.pendingBefore = DEFAULT_BPM * 1000
        /\ ~audioLog.confidentBefore)
       => /\ pendingBpmRef # audioLog.pendingBefore
          /\ pendingBpmRef' # pendingBpmRef
          /\ 70 < adaptiveState'.bpm /\ adaptiveState'.bpm < 140]_vars

\* C15: two changes of the published tempo made by ticks or ordinary tempo
\* events are at least BPM_UPDATE_INTERVAL_MS apart.
PublishedTempoRateLimited ==
    [][(/\ audioLog'.kind \in {"tick", "bpm"}
        /\ adaptiveState'.bpm # adaptiveState.bpm
        /\ audioHist.lastChangeAt >= 0)
       => audioNow' - audioHist.lastChangeAt >= BPM_UPDATE_INTERVAL_MS]_vars

\* C16: a stable tempo event with a candidate publishes at once: the
\* published tempo is the rounded pending tempo and the confidence is 1; the
\* pending tempo is blended 70/30 toward a candidate within twice
\* BPM_JUMP_THRESHOLD and is unchanged otherwise.
StableEventPublishes ==
    [][(audioLog'.kind = "bpmStable" /\ Len(audioLog'.candidates) > 0)
       => /\ pendingBpmRef' =
                IF Abs(TopTempo(audioLog') - pendingBpmRef)
                       <= 2 * BPM_JUMP_THRESHOLD * 1000
                THEN StableBlend(pendingBpmRef, TopTempo(audioLog'))
                ELSE pendingBpmRef
          /\ adaptiveState'.bpm = RoundDiv(pendingBpmRef', 1000)
          /\ adaptiveState'.bpmConfidence = CONFIDENCE_FULL]_vars

\* A stable event less than BPM_UPDATE_INTERVAL_MS after an ordinary event
\* published: it moved the pending tempo and published it.
StablePublishedInsideInterval ==
    /\ audioLog.kind = "bpmStable" /\ Len(audioLog.candidates) > 0
    /\ audioLog.lastPublishBefore > 0
    /\ audioNow - audioLog.lastPublishBefore < BPM_UPDATE_INTERVAL_MS
    /\ pendingBpmRef # audioLog.pendingBefore
    /\ adaptiveState.bpm = RoundDiv(pendingBpmRef, 1000)
    /\ adaptiveState.bpmConfidence = CONFIDENCE_FULL

\* C17: a tick below the near-silence floor never raises the confidence,
\* lowers it by one decay (not below 0) when it samples, and leaves the
\* published tempo no farther from DEFAULT_BPM; a tick at or above the floor
\* changes neither confidence nor published tempo.
QuietTicksDecay ==
    [][audioLog'.kind = "tick" =>
         IF audioLog'.level < SILENCE_FLOOR
         THEN /\ adaptiveState'.bpmConfidence <= adaptiveState.bpmConfidence
              /\ lastSampleTimeRef' = audioNow' =>
                    adaptiveState'.bpmConfidence =
                        Max(0, adaptiveState.bpmConfidence - CONFIDENCE_DECAY)
              /\ adaptiveState'.bpmConfidence > 0 =>
                    adaptiveState'.bpm = adaptiveState.bpm
              /\ Abs(adaptiveState'.bpm - DEFAULT_BPM)
                    <= Abs(adaptiveState.bpm - DEFAULT_BPM)
         ELSE /\ adaptiveState'.bpmConfidence = adaptiveState.bpmConfidence
              /\ adaptiveState'.bpm = adaptiveState.bpm]_vars

\* A quiet tick took an established confidence to 0 and the published tempo
\* left the rounded pending tempo toward DEFAULT_BPM.
QuietReachedZero ==
    /\ audioLog.kind = "tick" /\ audioLog.level < SILENCE_FLOOR
    /\ audioHist.confidentSeen
    /\ adaptiveState.bpmConfidence = 0
    /\ Abs(adaptiveState.bpm - DEFAULT_BPM)
          < Abs(RoundDiv(pendingBpmRef, 1000) - DEFAULT_BPM)

\* C18: in a session whose tempo detector failed to initialise the hook is
\* listening without an error, sampling ticks extend the history, the
\* confidence is 0 and the published tempo is DEFAULT_BPM.
NoDetectorNoTempo ==
    /\ []((isListening /\ bpmAnalyzerRef # "running") =>
            /\ error = "null"
            /\ adaptiveState.bpmConfidence = 0
            /\ adaptiveState.bpm = DEFAULT_BPM)
    /\ [][(/\ audioLog'.kind = "tick" /\ bpmAnalyzerRef # "running"
            /\ lastSampleTimeRef' = audioNow')
           => /\ features'.amplitude = audioLog'.level
              /\ sampled' = Append(sampled, audioLog'.level)]_vars

\* C19: after a rejected startListening the error is set and every
\* published feature is 0.
DeniedPublishesZero ==
    audioLog.kind = "denied" =>
        /\ error # "null"
        /\ features = [amplitude |-> 0, bass |-> 0, mid |-> 0, treble |-> 0]

CullKeepsNewest ==
    [][(RanAnimate /\ log'.culled) =>
         /\ Len(blobs') = HARD_CAP_TARGET
         /\ \A j \in 1..Len(blobs') : \A a \in log'.culledAges :
               blobs'[j].age <= a]_vars
\* What the slice does: it leaves HARD_CAP_TARGET particles, the oldest.
CullKeepsOldest ==
    [][(RanAnimate /\ log'.culled) =>
         /\ Len(blobs') = HARD_CAP_TARGET
         /\ \A j \in 1..Len(blobs') : \A a \in log'.culledAges :
               blobs'[j].age >= a]_vars


\* C22 as stated: in the equilibrium phase a new particle is appended only
\* in a frame that had no dead particle to recycle, and only while the
\* non-dying count is below SOFT_CAP_START.
AppendOnlyWithoutRecycling ==
    [][(RanFrame /\ ~log'.isSeeding /\ nextId' > nextId) =>
         /\ log'.recycled = {}
         /\ AliveCount(blobs) + Cardinality(log'.recycled) < SOFT_CAP_START]_vars
\* C22, amended: every dead particle is recycled whether or not a spawn is
\* due; in the equilibrium phase a frame appends at most one particle, only
\* when its spawn decision fired and the non-dying count after recycling is
\* below SOFT_CAP_START.
AppendOnlyBelowSoftCap ==
    [][(RanFrame /\ ~log'.isSeeding /\ nextId' > nextId) =>
         /\ nextId' = nextId + 1
         /\ lastSpawnRef' = elapsedRef' /\ lastSpawnRef' > lastSpawnRef
         /\ AliveCount(blobs) + Cardinality(log'.recycled) < SOFT_CAP_START]_vars
\* An equilibrium frame recycled dead particles and appended a new one.
RecycledAndAppended ==
    /\ log.kind = "frame" /\ ~log.isSeeding
    /\ log.recycled # {} /\ log.spawned = 1


\* C23: with the intensity held at or above INTENSITY_THRESHOLD and frames
\* arriving at a fixed period, the population eventually lies in the
\* soft-cap region [SOFT_CAP_START, SOFT_CAP_MAX].
IntenseReachesSoftCap ==
    HeldIntense =>
        <>(~log.isSeeding /\ populationRef >= SOFT_CAP_START
                          /\ populationRef <= SOFT_CAP_MAX)
\* An intense session has grown from the seed size into the region.
IntenseGrewIntoRegion ==
    /\ HeldIntense /\ log.kind = "frame" /\ ~log.isSeeding
    /\ populationRef = SOFT_CAP_START /\ log.spawned = 1


\* C24 as stated: whatever the viewport the layout reports, and with a
\* resize between any two frames, no frame divides by zero or produces a
\* non-finite particle position.
PositionsStayFinite == ~rotationLog.nonFinite
\* What holds: the counter-rotation is harmless while one side of the
\* viewport is positive, or while the rotation is below its activation speed.
FiniteUnlessBothZero ==
    rotationLog.nonFinite =>
        /\ rotationLog.rotated
        /\ rotationLog.maxDist = 0


\* C25 as stated: while the intensity stays below INTENSITY_THRESHOLD in the
\* equilibrium phase the population shrinks until it reaches MIN_POPULATION
\* (here for either reading of "population": the array length or the
\* non-dying count).
CalmShrinksToFloor ==
    HeldCalm =>
        <>(~log.isSeeding /\ (populationRef <= MIN_POPULATION
                                \/ AliveCount(blobs) <= MIN_POPULATION))
\* What the calm session does: the array never gets shorter, and the
\* non-dying count is never more than one below it.
CalmNeverShrinks ==
    [][(HeldCalm /\ RanFrame) =>
         /\ populationRef' >= populationRef
         /\ AliveCount(blobs') >= populationRef' - 1]_vars


\* C26: the age-based death decision marks exactly one particle when
\* shouldKillOldest is set and more than MIN_POPULATION particles are
\* non-dying, and none otherwise; the particle it marks was non-dying and no
\* particle that was non-dying at the decision is older.  (A particle's age
\* at the decision is its age at the end of the frame; the particles that
\* were non-dying at the decision are those non-dying at the end, those the
\* edge check marked, and the one the decision marked.)
AgeDeathMarksOldest ==
    [][RanFrame =>
         /\ (log'.shouldKillOldest /\ log'.aliveAtDeathCheck > MIN_POPULATION)
               => Cardinality(log'.ageMarked) = 1
         /\ ~(log'.shouldKillOldest /\ log'.aliveAtDeathCheck > MIN_POPULATION)
               => log'.ageMarked = {}
         /\ \A i \in 1..Len(blobs) : blobs[i].id \in log'.ageMarked =>
               ~blobs[i].dying \/ blobs[i].id \in log'.recycled
         /\ ~log'.culled =>
               \A j \in 1..Len(blobs') : blobs'[j].id \in log'.ageMarked =>
                  /\ blobs'[j].dying
                  /\ \A k \in 1..Len(blobs') :
                        (~blobs'[k].dying \/ blobs'[k].id \in log'.edgeOut)
                           => blobs'[k].age <= blobs'[j].age]_vars
\* A death decision marked a particle while a younger one was non-dying.
AgeMarkedAmongYounger ==
    /\ log.kind = "frame" /\ ~log.culled /\ log.ageMarked # {}
    /\ \E j, k \in 1..Len(blobs) :
          /\ blobs[j].id \in log.ageMarked
          /\ ~blobs[k].dying /\ blobs[k].age < blobs[j].age


\* C27: in the equilibrium phase the spawn (death) decision fires in a frame
\* exactly when the non-paused elapsed time since the last spawn (death)
\* decision exceeds 1000 / effectiveRate ms; a firing decision resets its
\* own accumulator only, the death decision sets shouldKillOldest, and the
\* spawn decision asks for one particle (appended when the non-dying count
\* is below SOFT_CAP_START).  Two decisions of a kind are therefore more
\* than that interval apart.
DecisionsFollowIntervals ==
    [][(RanFrame /\ ~log'.isSeeding) =>
         LET spawnFires ==
                 elapsedRef' - lastSpawnRef
                    > (1000 * SpawnRateDen) \div SpawnRateNum(held.audio)
             deathFires ==
                 elapsedRef' - lastDeathRef
                    > (1000 * DeathRateDen) \div DeathRateNum(held.audio, populationRef)
             below == AliveCount(blobs) + Cardinality(log'.recycled) < SOFT_CAP_START
         IN /\ lastSpawnRef' = IF spawnFires THEN elapsedRef' ELSE lastSpawnRef
            /\ lastDeathRef' = IF deathFires THEN elapsedRef' ELSE lastDeathRef
            /\ log'.shouldKillOldest = deathFires
            /\ nextId' - nextId = IF spawnFires /\ below THEN 1 ELSE 0]_vars
\* An equilibrium frame took a spawn decision and no death decision, after
\* an earlier death decision.
SpawnFiredDeathWaited ==
    /\ held.deltaMs > 0 /\ log.kind = "frame" /\ ~log.isSeeding
    /\ lastSpawnRef = elapsedRef
    /\ lastDeathRef > 0 /\ lastDeathRef < elapsedRef


\* The batches of the seeding seconds lo..hi together.
RECURSIVE SeedBatches(_, _)
SeedBatches(lo, hi) == IF lo > hi THEN 0 ELSE SeedBatch(lo) + SeedBatches(lo + 1, hi)
\* The whole seeding second a frame at `now` falls into.
SeedingSecond(now, start) == FloorDiv(now - start, 1000)

\* C28 as stated: every whole elapsed second s of the seeding phase,
\* 1 <= s < SEED_DURATION_SECONDS, contributes exactly one batch of
\* SeedBatch(s) particles whatever the frame timing and pausing (so a frame
\* brings the batches of all the seconds that began since the last batch),
\* and no equilibrium spawn or death decision is taken while seeding.
SeedingSecondsAllContribute ==
    [][RanFrame =>
         LET due == SeedBatches(lastSeedSecondRef + 1,
                                Min(SeedingSecond(perfNow', seedingStartTimeRef'),
                                    SEED_DURATION_SECONDS - 1))
         IN IF log'.isSeeding
            THEN /\ nextId' - nextId = due
                 /\ lastSpawnRef' = lastSpawnRef /\ lastDeathRef' = lastDeathRef
                 /\ ~log'.shouldKillOldest
            ELSE due = 0]_vars
\* What a seeding frame does: it brings the batch of its own second if that
\* second is later than the last one that brought a batch, and nothing else.
SeedingBatchOfCurrentSecond ==
    [][(RanFrame /\ log'.isSeeding) =>
         LET second == SeedingSecond(perfNow', seedingStartTimeRef')
         IN /\ nextId' - nextId =
                  IF second > lastSeedSecondRef THEN SeedBatch(second) ELSE 0
            /\ lastSpawnRef' = lastSpawnRef /\ lastDeathRef' = lastDeathRef
            /\ ~log'.shouldKillOldest]_vars

\* ============================================ the index within a frame
\* One call of animate as the spatial index sees it (Blobulator.tsx
\* 693-1098): the index is rebuilt from the frame's array, the motion loop
\* moves every particle in place, the direction influence step looks the
\* neighbours of every particle up, the lifecycle steps change the array,
\* and the index is rebuilt from the array the frame returns.  The arrays
\* are the engine's scaled down to MaxHashBlobs particles; every particle is
\* old enough to take part in the influence step (age >= INFLUENCE_MIN_AGE,
\* a filter both branches of the step apply alike).

\* driftSpeed = 0.018 * speedVariation * driftFactor px per ms, in
\* thousandths, for a silent input (driftFactor = 1) and a particle at the
\* middle of its speed variation (speedVariation = 1).
DRIFT_SPEED == 18
\* cos(blob.direction) of a particle heading along the x axis (sin is 0).
Headings == {-1, 1}
\* blob.x += driftX with driftX = Math.cos(blob.direction) * driftSpeed *
\* deltaMs, in whole px; the velocity term is that of a particle at rest.
drift(b, heading, deltaMs) ==
    [b EXCEPT !.x = b.x + heading * ((DRIFT_SPEED * deltaMs) \div 1000)]
\* The motion loop over the whole array.
driftAll(bs, headings, deltaMs) ==
    [i \in 1..Len(bs) |-> drift(bs[i], headings[i], deltaMs)]

\* The distance filter of the influence step: i !== j, and
\* distance < BLOB_INFLUENCE_RADIUS && distance > 0, squared.
PassesFilter(bs, i, j) ==
    /\ i # j
    /\ DistanceSq(bs[j], bs[i].x, bs[i].y) < BLOB_INFLUENCE_RADIUS * BLOB_INFLUENCE_RADIUS
    /\ DistanceSq(bs[j], bs[i].x, bs[i].y) > 0
\* The neighbours of particle i that pass the filter when checkIndices is
\* the answer of the index to (blob.x, blob.y): the useSpatialHash branch.
NeighborsViaIndex(cells, cellSize, bs, i) ==
    LET checkIndices == getNeighborIndices(cells, cellSize, bs[i].x, bs[i].y)
    IN  {checkIndices[k] : k \in {n \in 1..Len(checkIndices) :
                                     PassesFilter(bs, i, checkIndices[n])}}
\* The same when checkIndices is every index: updatedBlobs.map((_, idx) => idx).
NeighborsViaScan(bs, i) == {j \in 1..Len(bs) : PassesFilter(bs, i, j)}

\* What the lifecycle steps do to the array: nothing, a dead particle is
\* replaced in place by a new one (recycle), a new particle is pushed
\* (spawn), or the head of the array is sliced off (hard cap).  A new
\* particle is placed where createRandomBlob places it in a 1200 x 800
\* viewport.
LifecycleChanges == {"none", "recycle", "spawn", "cull"}
SpawnPosition(rnd) ==
    [x |-> RandomX([width |-> 1200, height |-> 800], rnd),
     y |-> RandomY([width |-> 1200, height |-> 800], rnd)]
lifecycleChange(bs, change, rnd) ==
    CASE change = "recycle" /\ Len(bs) > 0 -> [bs EXCEPT ![1] = SpawnPosition(rnd)]
      [] change = "spawn" /\ Len(bs) < MaxHashBlobs -> Append(bs, SpawnPosition(rnd))
      [] change = "cull" /\ Len(bs) > 0 -> Tail(bs)
      [] OTHER -> bs

\* animate, reduced to the index and the positions.
animateIndex(cells, cellSize, bs, deltaMs, headings, change, rnd) ==
    LET atStart == rebuild(cells, cellSize, bs)
        moved == driftAll(bs, headings, deltaMs)
        final == lifecycleChange(moved, change, rnd)
    IN  [cells |-> rebuild(atStart, cellSize, final),
         blobs |-> final,
         viaIndex |-> [i \in 1..Len(bs) |-> NeighborsViaIndex(atStart, cellSize, moved, i)],
         viaScan |-> [i \in 1..Len(bs) |-> NeighborsViaScan(moved, i)]]

\* Frames followed: a 60 Hz frame and the first frame after the tab was in
\* the background.
IndexFrameDeltas == {16, 5000}
\* Where the particles are when the frames followed begin: on both sides of
\* zero, on a cell boundary, and more than a cell but less than a cell and
\* a radius left of the centre.
IndexFramePositions ==
    {[x |-> -150, y |-> 0], [x |-> -80, y |-> 0], [x |-> 0, y |-> 0],
     [x |-> 79, y |-> 99]}

\* The inputs that make a difference: the headings when the drift of the
\* frame is a whole pixel or more, the random draw when a particle is
\* created.
FrameHeadings(n, deltaMs) ==
    IF (DRIFT_SPEED * deltaMs) \div 1000 = 0 THEN {[i \in 1..n |-> 1]}
    ELSE [1..n -> Headings]
FrameDraws(change) == IF change \in {"recycle", "spawn"} THEN Rand ELSE {0}

IndexFrame ==
    /\ hashLog.frames < MaxIndexFrames
    /\ \E deltaMs \in IndexFrameDeltas, change \in LifecycleChanges :
       \E rnd \in FrameDraws(change),
          headings \in FrameHeadings(Len(hashBlobs), deltaMs) :
         LET T == animateIndex(hashCells, hashCellSize, hashBlobs,
                               deltaMs, headings, change, rnd)
         IN  /\ hashCells' = T.cells
             /\ hashBlobs' = T.blobs
             /\ hashLog' = [NoHashLog EXCEPT
                              !.kind = "frame", !.frames = hashLog.frames + 1,
                              !.deltaMs = deltaMs, !.change = change,
                              !.viaIndex = T.viaIndex, !.viaScan = T.viaScan]
    /\ hashFresh' = TRUE
    /\ UNCHANGED hashCellSize
    /\ UNCHANGED <<engineVars, audioVars, sessionVars>>

InitIndexFrame ==
    /\ SetEngine(MountState(1000, [width |-> 1200, height |-> 800]))
    /\ SetAudio(AudioMount)
    /\ \E bs \in UNION {[1..n -> IndexFramePositions] : n \in 0..MaxHashBlobs} :
         HashMount(SPATIAL_HASH_CELL_SIZE, bs)
    /\ held = NoHeld /\ rotation = RotationMount /\ rotationLog = NoRotationLog
    /\ gravity = GravityMount(1000) /\ gravityLog = NoGravityLog
    /\ StartMount
    /\ heldSignal = NoSignal
NextIndexFrame == IndexFrame
SpecIndexFrame == InitIndexFrame /\ [][NextIndexFrame]_vars

\* C29 as stated: in the direction influence step of every frame the
\* neighbours that pass the distance filter are the same whether the
\* candidates come from the index built at the start of the frame or from
\* the full scan.
FlockingSeesAllNeighbors ==
    hashLog.kind = "frame" => hashLog.viaIndex = hashLog.viaScan
\* What holds: the index never adds a neighbour, and it misses none in a
\* frame short enough that no particle moves by more than the difference
\* between the cell size and the radius.
FlockingSeesNeighborsOfShortFrames ==
    hashLog.kind = "frame" =>
        /\ \A i \in DOMAIN hashLog.viaIndex : hashLog.viaIndex[i] \subseteq hashLog.viaScan[i]
        /\ hashLog.deltaMs = 16 => hashLog.viaIndex = hashLog.viaScan

\* The places (cell, slot) at which the index holds the array index i.
IndexPlaces(cells, i) ==
    {<<key, k>> \in UNION {{key} \X (1..Len(cells[key])) : key \in DOMAIN cells} :
        cells[key][k] = i}
\* C30: at the end of every frame the index is consistent with the array
\* the frame returns: every array index is in exactly one cell, that cell
\* is (floor(x / cellSize), floor(y / cellSize)) of the particle's final
\* position, and no cell holds anything that is not an array index.
IndexConsistentAtFrameEnd ==
    hashLog.kind = "frame" =>
        /\ \A i \in 1..Len(hashBlobs) :
              /\ Cardinality(IndexPlaces(hashCells, i)) = 1
              /\ \A pl \in IndexPlaces(hashCells, i) :
                    pl[1] = <<FloorDiv(hashBlobs[i].x, hashCellSize),
                              FloorDiv(hashBlobs[i].y, hashCellSize)>>
        /\ \A key \in DOMAIN hashCells : \A k \in 1..Len(hashCells[key]) :
              hashCells[key][k] \in 1..Len(hashBlobs)
\* A frame in which particles changed cell on the negative side and the
\* array got shorter: the index of the frame's start holds an index the
\* returned array no longer has.
FrameMovedAndCulled ==
    /\ hashLog.kind = "frame" /\ hashLog.deltaMs = 5000 /\ hashLog.change = "cull"
    /\ Len(hashBlobs) = Len(hashLog.viaScan) - 1
    /\ \E i \in 1..Len(hashBlobs) : hashBlobs[i].x < 0 /\ hashBlobs[i].x % hashCellSize # 0

\* ============================================ gravity center sessions
\* The density maps a detection can meet, as the cells' count, sumX and sumY
\* in Map insertion order: no particles in reach of a cluster, one cluster
\* of the minimum size, a full-strength cluster with a sparse cell, two
\* clusters, and four clusters (one more than MAX_GRAVITY_CENTERS).
DensityMaps ==
    {<<>>,
     <<[count |-> 8, sumX |-> 800, sumY |-> 0]>>,
     <<[count |-> 5, sumX |-> 0, sumY |-> 0], [count |-> 30, sumX |-> -6000, sumY |-> 3000]>>,
     <<[count |-> 20, sumX |-> 2000, sumY |-> 2000], [count |-> 12, sumX |-> -1200, sumY |-> 600]>>,
     <<[count |-> 8, sumX |-> 800, sumY |-> 0], [count |-> 40, sumX |-> -8000, sumY |-> 0],
       [count |-> 20, sumX |-> 0, sumY |-> 4000], [count |-> 12, sumX |-> 2400, sumY |-> -1200]>>}
\* Frame periods: a 60 Hz display, and a host slow enough that every frame
\* detects.
GravityDeltas == {16, 600}
\* A frame that does not detect does not read the density map.
GravityInputs(G, now) ==
    IF now - G.lastGravityUpdateRef > GRAVITY_CENTER_UPDATE_MS THEN DensityMaps
    ELSE {<<>>}

GravityFrame ==
    /\ gravityLog.frames < MaxGravityFrames
    /\ \E d \in GravityDeltas :
         \E densityMap \in GravityInputs(gravity, gravity.now + d) :
            LET T == gravityStep(gravity, gravity.now + d, densityMap)
            IN  /\ gravity' = T.refs
                /\ gravityLog' =
                     [kind |-> "frame", frames |-> gravityLog.frames + 1,
                      detected |-> T.detected, initialised |-> T.initialised,
                      targets |-> T.targets, previous |-> T.previous,
                      before |-> T.before, after |-> T.after, dropped |-> T.dropped]
    /\ UNCHANGED <<engineVars, audioVars, hashVars, held, heldSignal, rotation, rotationLog,
                 startVars>>

InitGravity ==
    /\ SetEngine(MountState(1000, [width |-> 1200, height |-> 800]))
    /\ SetAudio(AudioMount)
    /\ HashMount(SPATIAL_HASH_CELL_SIZE, <<>>)
    /\ held = NoHeld /\ rotation = RotationMount /\ rotationLog = NoRotationLog
    /\ gravity = GravityMount(1000) /\ gravityLog = NoGravityLog
    /\ StartMount
    /\ heldSignal = NoSignal
NextGravity == GravityFrame
SpecGravity == InitGravity /\ [][NextGravity]_vars

\* The target the lerp of a frame used for the actual center of index i.
LerpTarget(i) ==
    IF i <= Len(gravityLog.targets) THEN gravityLog.targets[i]
    ELSE [gravityLog.before[i] EXCEPT !.strength = 0]
\* From before to after the lerp, center i changed by at most the
\* GRAVITY_CENTER_LERP fraction of its distance to the target.
ChangedWithinLerp(i) ==
    \A f \in {"x", "y", "strength"} :
        100 * Abs(gravityLog.after[i][f] - gravityLog.before[i][f])
            <= GRAVITY_CENTER_LERP * Abs(LerpTarget(i)[f] - gravityLog.before[i][f])
\* C31 as stated: every actual center a frame creates (the centers the
\* lerp works on beyond those the previous frame left) has strength 0 when
\* it is created, on the first detection too, and the lerp changes no
\* center by more than the lerp fraction of its distance to the target.
GravityCentersNeverJump ==
    gravityLog.kind = "frame" =>
        /\ \A i \in (Len(gravityLog.previous) + 1)..Len(gravityLog.before) :
              gravityLog.before[i].strength = 0
        /\ \A i \in 1..Len(gravityLog.before) : ChangedWithinLerp(i)
\* What holds: the same apart from a detection that finds the actual
\* centers empty, which copies the targets at their full strength.
GravityCentersJumpOnlyWhenEmpty ==
    gravityLog.kind = "frame" =>
        /\ ~gravityLog.initialised =>
              \A i \in (Len(gravityLog.previous) + 1)..Len(gravityLog.before) :
                 gravityLog.before[i].strength = 0
        /\ gravityLog.initialised =>
              Len(gravityLog.previous) = 0 /\ gravityLog.before = gravityLog.targets
        /\ \A i \in 1..Len(gravityLog.before) : ChangedWithinLerp(i)

\* C32 as stated, its safety part: a frame drops an actual center only
\* when no target supports it (its index is beyond the targets) and its
\* strength has faded to the threshold, so a center whose target persists
\* is never removed, one just added at strength 0 included; and there are
\* never more than MAX_GRAVITY_CENTERS actual centers.
GravityDropsOnlyUnsupported ==
    /\ Len(gravity.gravityCentersRef) <= MAX_GRAVITY_CENTERS
    /\ gravityLog.kind = "frame" =>
          \A i \in gravityLog.dropped :
             /\ i > Len(gravityLog.targets)
             /\ gravityLog.after[i].strength <= GRAVITY_CENTER_FADE_THRESHOLD
\* What holds: the bound on the number of centers, and a supported center
\* is dropped exactly when it was added in this frame: every center added
\* at strength 0 is dropped by the filter of the same frame.
GravityDropsEveryAddedCenter ==
    /\ Len(gravity.gravityCentersRef) <= MAX_GRAVITY_CENTERS
    /\ gravityLog.kind = "frame" =>
          \A i \in 1..Len(gravityLog.targets) :
             i \in gravityLog.dropped
                <=> (i > Len(gravityLog.previous) /\ ~gravityLog.initialised)

\* =============================================== held level sessions
\* A listening session in which every tick samples the same spectrum
\* level, one tick per SAMPLE_INTERVAL_MS, and no tempo event arrives:
\* silence, or a full-scale signal.  It begins at the start of listening or
\* after the "fading" session (a tempo well above DEFAULT_BPM was published
\* with full confidence and all but one decay of it has been applied).
HeldLevels == {0, AMPLITUDE_FULL}
LevelTick ==
    /\ isListening /\ audioEvents < MaxLevelTicks
    /\ NextAudioState(TickStep(AudioState, heldSignal.level, SAMPLE_INTERVAL_MS))
    /\ UNCHANGED <<engineVars, hashVars, sessionVars>>
InitLevels ==
    /\ SetEngine(MountState(1000, [width |-> 1200, height |-> 800]))
    /\ \/ SetAudio([StartStep(AudioMount, "granted") EXCEPT !.audioEvents = 0])
       \/ SetAudio(Session("fading"))
    /\ HashMount(SPATIAL_HASH_CELL_SIZE, <<>>)
    /\ held = NoHeld /\ rotation = RotationMount /\ rotationLog = NoRotationLog
    /\ gravity = GravityMount(1000) /\ gravityLog = NoGravityLog
    /\ StartMount
    /\ \E level \in HeldLevels : heldSignal = [level |-> level, tempo |-> 0]
NextLevels == LevelTick
\* The analysis loop re-arms itself while listening, so ticks keep arriving.
TickArrives == audioEvents < MaxLevelTicks /\ audioEvents' = audioEvents + 1
SpecLevels == InitLevels /\ [][NextLevels]_vars /\ WF_audioEvents(TickArrives)

\* ---------------------------------------------- held tempo sessions
\* The tempo the detector reports from some point on: inside and outside
\* BPM_JUMP_THRESHOLD of DEFAULT_BPM and of the tempo of the sessions.
HeldTempos == {110, 125, 180}
\* Time between two ordinary events of the detector, ms: two events per
\* BPM_UPDATE_INTERVAL_MS.
HELD_EVENT_MS == BPM_UPDATE_INTERVAL_MS \div 2
\* An ordinary tempo event with the held candidate, at a support count
\* below 100.
HeldBpmEvent ==
    /\ isListening /\ bpmAnalyzerRef = "running" /\ audioEvents < MaxTempoEvents
    /\ NextAudioState(BpmStep(AudioState,
                              <<[tempo |-> heldSignal.tempo, count |-> 50]>>,
                              HELD_EVENT_MS))
    /\ UNCHANGED <<engineVars, hashVars, sessionVars>>
\* The point from which the detector holds one tempo: the start of
\* listening, or after a session whose tempo was pulled back by silence.
InitTempo ==
    /\ SetEngine(MountState(1000, [width |-> 1200, height |-> 800]))
    /\ \/ SetAudio([StartStep(AudioMount, "granted") EXCEPT !.audioEvents = 0])
       \/ SetAudio(Session("silenced"))
    /\ HashMount(SPATIAL_HASH_CELL_SIZE, <<>>)
    /\ held = NoHeld /\ rotation = RotationMount /\ rotationLog = NoRotationLog
    /\ gravity = GravityMount(1000) /\ gravityLog = NoGravityLog
    /\ StartMount
    /\ \E tempo \in HeldTempos : heldSignal = [level |-> 0, tempo |-> tempo]
NextTempo == HeldBpmEvent
\* The detector keeps reporting while it runs.
EventArrives == audioEvents < MaxTempoEvents /\ audioEvents' = audioEvents + 1
SpecTempo == InitTempo /\ [][NextTempo]_vars /\ WF_audioEvents(EventArrives)

\* ---------------------------------------------- session start and stop
\* startListening is an async function: it runs to its first await when it
\* is called, and each later part runs when the awaited promise settles.
\* stopListening is synchronous.  Nothing else runs in between the parts.
InFlight(i) == starting[i] \in {"awaitDevice", "awaitDetector"}
\* startListening is called (the i-th call of the mount): it runs to
\* `await navigator.mediaDevices.getUserMedia`.
StartCall(i) ==
    /\ starting[i] = "idle" /\ \A j \in 1..(i - 1) : starting[j] # "idle"
    /\ starting' = [starting EXCEPT ![i] = "awaitDevice"]
    /\ lastCall' = "start"
    /\ UNCHANGED <<engineVars, audioVars, hashVars, streamRef, tracks,
                   held, heldSignal, rotation, rotationLog, gravityVars>>
\* getUserMedia resolves for call i: streamRef.current = stream, the audio
\* graph is built, and the call runs to `await createRealtimeBpmAnalyzer`.
DeviceGranted(i) ==
    /\ starting[i] = "awaitDevice"
    /\ starting' = [starting EXCEPT ![i] = "awaitDetector"]
    /\ streamRef' = i
    /\ tracks' = [tracks EXCEPT ![i] = "live"]
    /\ UNCHANGED <<engineVars, audioVars, hashVars, lastCall,
                   held, heldSignal, rotation, rotationLog, gravityVars>>
\* getUserMedia rejects for call i: the outer catch.
DeviceDenied(i) ==
    /\ starting[i] = "awaitDevice"
    /\ starting' = [starting EXCEPT ![i] = "done"]
    /\ NextAudioState(StartStep(AudioState, "denied"))
    /\ UNCHANGED <<engineVars, hashVars, streamRef, tracks, lastCall,
                   held, heldSignal, rotation, rotationLog, gravityVars>>
\* createRealtimeBpmAnalyzer settles for call i (resolved, or rejected into
\* the inner catch): the rest of the body, setIsListening(true) and
\* setError(null).
DetectorSettles(i) ==
    /\ starting[i] = "awaitDetector"
    /\ starting' = [starting EXCEPT ![i] = "done"]
    /\ \E outcome \in {"granted", "noDetector"} :
         NextAudioState(StartStep(AudioState, outcome))
    /\ UNCHANGED <<engineVars, hashVars, streamRef, tracks, lastCall,
                   held, heldSignal, rotation, rotationLog, gravityVars>>
\* stopListening is called: the detector is stopped, and the tracks of
\* streamRef.current are stopped when there is a stream.
StopCall ==
    /\ NextAudioState(StopStep(AudioState))
    /\ tracks' = IF streamRef # 0 THEN [tracks EXCEPT ![streamRef] = "stopped"]
                 ELSE tracks
    /\ lastCall' = "stop"
    /\ UNCHANGED <<engineVars, hashVars, starting, streamRef,
                   held, heldSignal, rotation, rotationLog, gravityVars>>
InitStart ==
    /\ SetEngine(MountState(1000, [width |-> 1200, height |-> 800]))
    /\ SetAudio(AudioMount)
    /\ HashMount(SPATIAL_HASH_CELL_SIZE, <<>>)
    /\ held = NoHeld /\ rotation = RotationMount /\ rotationLog = NoRotationLog
    /\ gravity = GravityMount(1000) /\ gravityLog = NoGravityLog
    /\ StartMount
    /\ heldSignal = NoSignal
NextStart ==
    \/ \E i \in 1..MaxStarts :
          StartCall(i) \/ DeviceGranted(i) \/ DeviceDenied(i) \/ DetectorSettles(i)
    \/ StopCall
SpecStart == InitStart /\ [][NextStart]_vars

\* ------------------------------------------------------ the recycle step
\* The recycle loop on whole particles.  Units: velocities in hundredths of
\* a pixel per frame, headings in half turns, sizes in per cent of
\* config.baseBlobSize.  Ids are integers: the sum of character codes
\* getClusterIndex takes of the id's random part is the id itself.
getClusterIndex(blobId) == blobId % 3

\* A variant that gives the recycled particle a new identity and counts the
\* recycling as a generation.
recycleBlobAsNew(deadBlob, vp, rnd) ==
    [id |-> deadBlob.id + MaxRecycleBlobs + 1,
     x |-> RandomX(vp, rnd), y |-> RandomY(vp, rnd),
     vx |-> (rnd * 50 - 50) \div 2, vy |-> (rnd * 50 - 50) \div 2,
     direction |-> rnd, generation |-> deadBlob.generation + 1,
     size |-> 80 + rnd * 20, age |-> 0, isFrontier |-> TRUE,
     colorIndex |-> (rnd * 5) \div 2, lifecycle |-> 0, dying |-> FALSE]
\* The body of `for (const deadBlob of deadBlobs)`: the assignments of
\* RecycleOne, and those to vx, vy, direction, size, colorIndex, isFrontier.
recycleBlob(deadBlob, vp, rnd) ==
    [RecycleOne(deadBlob, vp, rnd) EXCEPT
        !.vx = (rnd * 50 - 50) \div 2,
        !.vy = (rnd * 50 - 50) \div 2,
        !.direction = rnd,
        !.size = 80 + rnd * 20,
        !.colorIndex = (rnd * 5) \div 2,
        !.isFrontier = TRUE]
\* deadBlobs is collected from updatedBlobs and its members are assigned to
\* in place.
recycleDeadBlobs(bs, vp, rnd) ==
    [i \in 1..Len(bs) |-> IF IsDead(bs[i]) THEN recycleBlob(bs[i], vp, rnd) ELSE bs[i]]

\* Whole particles after the lifecycle step of a frame: fading in, fully
\* present, dying above, at and below LIFECYCLE_REMOVE_THRESHOLD.  The
\* generation is 0 and isFrontier true, as every creation sets them.
RecycleLifecycles == {0, LIFECYCLE_REMOVE_THRESHOLD, LIFECYCLE_REMOVE_THRESHOLD + 1,
                      LIFECYCLE_FULL}
WholeBlob(id, lifecycle, dying) ==
    [id |-> id, x |-> 40 * id, y |-> -30, vx |-> 10, vy |-> -10, direction |-> 1,
     generation |-> 0, size |-> 90, age |-> 7 * id, isFrontier |-> TRUE,
     colorIndex |-> 4, lifecycle |-> lifecycle, dying |-> dying]
RecycleArrays ==
    UNION {{[i \in 1..n |-> WholeBlob(i, lc[i], dy[i])] :
               lc \in [1..n -> RecycleLifecycles], dy \in [1..n -> BOOLEAN]} :
           n \in 0..MaxRecycleBlobs}

\* The recycle step of a frame on the array the lifecycle step left.
RecycleStep ==
    /\ log.kind = "mount"
    /\ \E rnd \in Rand :
         blobs' = recycleDeadBlobs(blobs, viewport, rnd)
    /\ log' = [NoLog EXCEPT
                 !.kind = "recycle",
                 !.recycled = {blobs[i].id : i \in {j \in 1..Len(blobs) : IsDead(blobs[j])}}]
    /\ UNCHANGED <<viewport, isPaused, populationRef, elapsedRef, lastFrameRef,
                   lastSpawnRef, lastDeathRef, seedingStartTimeRef, lastSeedSecondRef,
                   perfNow, nextId, frames>>
    /\ UNCHANGED <<audioVars, hashVars, sessionVars>>
InitRecycle ==
    /\ \E bs \in RecycleArrays :
         SetEngine([MountState(1000, [width |-> 1200, height |-> 800])
                      EXCEPT !.blobs = bs])
    /\ SetAudio(AudioMount)
    /\ HashMount(SPATIAL_HASH_CELL_SIZE, <<>>)
    /\ held = NoHeld /\ rotation = RotationMount /\ rotationLog = NoRotationLog
    /\ gravity = GravityMount(1000) /\ gravityLog = NoGravityLog
    /\ StartMount
    /\ heldSignal = NoSignal
NextRecycle == RecycleStep
SpecRecycle == InitRecycle /\ [][NextRecycle]_vars

\* ================================================ audio analyzer, part 2
\* The step is a tick that ran the sampling updater.
SampledTick == Len(sampled') = Len(sampled) + 1
\* C33: a sampling tick leaves the adaptive threshold unchanged while the
\* amplitude history holds fewer than 100 samples; from 100 samples on it
\* moves the threshold by 1% of the difference toward mean + 0.5 * stdDev of
\* the new statistics and clamps it; the threshold is within [0.02, 0.5]
\* after every step.
ThresholdAdaptsWithHistory ==
    [][/\ adaptiveState'.adaptiveThreshold >= THRESHOLD_FLOOR
       /\ adaptiveState'.adaptiveThreshold <= THRESHOLD_CEILING
       /\ SampledTick =>
            LET before == adaptiveState.adaptiveThreshold
                target == adaptiveState'.stats.mean * 1000
                            + adaptiveState'.stats.stdDev * 500
                moved == before + FloorDiv(target - before, 100)
            IN  adaptiveState'.adaptiveThreshold =
                   IF Len(adaptiveState'.amplitudeHistory) < 100 THEN before
                   ELSE IF moved < THRESHOLD_FLOOR THEN THRESHOLD_FLOOR
                   ELSE IF moved > THRESHOLD_CEILING THEN THRESHOLD_CEILING
                   ELSE moved]_vars
\* Sampling ticks on a history of at least 100 samples have moved the
\* threshold from its initial 0.05 up to the clamp.
ThresholdReachedClamp ==
    /\ audioLog.kind = "tick"
    /\ lastSampleTimeRef = audioNow
    /\ Len(adaptiveState.amplitudeHistory) >= THRESHOLD_MIN_HISTORY
    /\ adaptiveState.adaptiveThreshold = THRESHOLD_CEILING
\* The same down to the clamp, in silence.
ThresholdReachedFloor ==
    /\ audioLog.kind = "tick"
    /\ Len(adaptiveState.amplitudeHistory) >= THRESHOLD_MIN_HISTORY
    /\ adaptiveState.adaptiveThreshold = THRESHOLD_FLOOR

\* C34: under sustained silence with no tempo events the published tempo
\* eventually equals DEFAULT_BPM, whatever it was.
SilenceReturnsTempoToDefault ==
    [](heldSignal.level < SILENCE_FLOOR /\ isListening
         => <>(adaptiveState.bpm = DEFAULT_BPM))
\* What holds: a quiet sampling tick at confidence 0 leaves a published
\* tempo from 111 to 130 where it is, because the weighted tempo is rounded
\* to an integer at every tick; a tempo above 130 comes down by at least 1.
SilenceStallsNearDefault ==
    [][(SampledTick /\ audioLog'.level < SILENCE_FLOOR
          /\ adaptiveState'.bpmConfidence = 0) =>
         /\ (adaptiveState.bpm >= 111 /\ adaptiveState.bpm <= 130)
               => adaptiveState'.bpm = adaptiveState.bpm
         /\ adaptiveState.bpm > 130
               => (adaptiveState'.bpm < adaptiveState.bpm /\ adaptiveState'.bpm >= 130)]_vars

\* The step is a tempo event of the detector, ordinary or stable.
TempoEventStep == audioLog'.kind \in {"bpm", "bpmStable"}
\* The step is a tick that applies the decay rule: a sampling tick on a level
\* below the near-silence floor.
DecayTick == SampledTick /\ audioLog'.level < SILENCE_FLOOR
\* C35: a tick that comes after a tempo event leaves the published tempo and
\* confidence as the event wrote them, unless it is a near-silence tick that
\* applies the decay rule; a tempo event leaves the histories, the stats,
\* the threshold, the intensities and the features of the tick before it.
TempoEventsAndTicksCompose ==
    /\ [][(audioLog.kind \in {"bpm", "bpmStable"} /\ audioLog'.kind = "tick"
             /\ ~DecayTick) =>
            /\ adaptiveState'.bpm = adaptiveState.bpm
            /\ adaptiveState'.bpmConfidence = adaptiveState.bpmConfidence]_vars
    /\ [][(audioLog.kind = "tick" /\ TempoEventStep) =>
            /\ adaptiveState' = [adaptiveState EXCEPT
                                   !.bpm = adaptiveState'.bpm,
                                   !.bpmConfidence = adaptiveState'.bpmConfidence]
            /\ features' = features /\ sampled' = sampled
            /\ lastSampleTimeRef' = lastSampleTimeRef]_vars
\* A sampling tick has run after a tempo event published a tempo other
\* than the default with a confidence, and both are still published.
TickAfterPublishedTempo ==
    /\ audioLog.kind = "tick" /\ Len(sampled) >= 1
    /\ audioLog.level >= SILENCE_FLOOR
    /\ adaptiveState.bpm # DEFAULT_BPM /\ adaptiveState.bpmConfidence > 0
    /\ Len(adaptiveState.amplitudeHistory) >= 1

\* C36: when the detector reports only ordinary events with one candidate
\* T, the published tempo eventually comes within 1 BPM of T.
TempoTrackingRecovers ==
    isListening /\ heldSignal.tempo > 0
       => <>(Abs(adaptiveState.bpm - heldSignal.tempo) <= 1)
\* What holds: an ordinary event whose candidate is more than
\* BPM_JUMP_THRESHOLD from a pending value other than DEFAULT_BPM leaves the
\* pending value where it is, so such a candidate is never tracked.
TempoOutsideJumpIsIgnored ==
    [][(audioLog'.kind = "bpm" /\ heldSignal.tempo > 0
          /\ pendingBpmRef # DEFAULT_BPM * 1000
          /\ Abs(heldSignal.tempo * 1000 - pendingBpmRef) > BPM_JUMP_THRESHOLD * 1000)
         => pendingBpmRef' = pendingBpmRef]_vars
\* What holds: a candidate within BPM_JUMP_THRESHOLD of the pending value
\* is tracked to within 1 BPM.
TempoWithinJumpIsTracked ==
    (isListening /\ heldSignal.tempo > 0
       /\ Abs(heldSignal.tempo * 1000 - pendingBpmRef) <= BPM_JUMP_THRESHOLD * 1000)
       => <>(Abs(adaptiveState.bpm - heldSignal.tempo) <= 1)

\* C37: when stopListening was the last call and no startListening is in
\* flight any more, isListening is false and the tracks of every stream
\* acquired are stopped.
StartIsCancelable ==
    (lastCall = "stop" /\ \A i \in 1..MaxStarts : ~InFlight(i)) =>
        /\ ~isListening
        /\ \A i \in 1..MaxStarts : tracks[i] # "live"
\* What holds: stopListening called while no startListening is in flight
\* leaves isListening false and the tracks of streamRef.current stopped.
StopReleasesCurrentStream ==
    [][(lastCall' = "stop" /\ \A i \in 1..MaxStarts : ~InFlight(i)) =>
         /\ ~isListening'
         /\ streamRef # 0 => tracks'[streamRef] = "stopped"]_vars

\* C39: the recycle step changes of a dead particle nothing but position,
\* velocity, heading, size, colour index, age, lifecycle, dying and the
\* frontier flag: its id (and with it its cluster), its generation and its
\* index stay; every other particle and the length of the array stay.
RecycleKeepsIdentity ==
    [][log'.kind = "recycle" =>
         /\ Len(blobs') = Len(blobs)
         /\ \A i \in 1..Len(blobs) :
               IF IsDead(blobs[i])
               THEN /\ blobs'[i] =
                         [blobs[i] EXCEPT
                            !.x = blobs'[i].x, !.y = blobs'[i].y,
                            !.vx = blobs'[i].vx, !.vy = blobs'[i].vy,
                            !.direction = blobs'[i].direction,
                            !.size = blobs'[i].size,
                            !.colorIndex = blobs'[i].colorIndex,
                            !.age = blobs'[i].age,
                            !.lifecycle = blobs'[i].lifecycle,
                            !.dying = blobs'[i].dying,
                            !.isFrontier = blobs'[i].isFrontier]
                    /\ blobs'[i].id = blobs[i].id
                    /\ blobs'[i].generation = blobs[i].generation
                    /\ getClusterIndex(blobs'[i].id) = getClusterIndex(blobs[i].id)
               ELSE blobs'[i] = blobs[i]]_vars
\* The step recycled the second particle of two, next to a dying particle
\* that is not dead yet.
RecycledSecondOfTwo ==
    /\ log.kind = "recycle" /\ Len(blobs) = 2
    /\ blobs[2].id \in log.recycled /\ blobs[1].id \notin log.recycled
    /\ blobs[2].id = 2 /\ blobs[2].lifecycle = 0 /\ ~blobs[2].dying
    /\ blobs[2].age = 0 /\ blobs[2].size # 90
    /\ blobs[1].dying

\* C40: a paused frame leaves the particle array, the elapsed-time counter
\* and the spawn and death accumulators as they are, and the first frame
\* after resuming takes as its time delta the time since the last paused
\* frame, so none of the paused time before it.
PausedFramesChangeNothing ==
    /\ [][log'.kind = "paused" =>
            /\ blobs' = blobs /\ elapsedRef' = elapsedRef
            /\ lastSpawnRef' = lastSpawnRef /\ lastDeathRef' = lastDeathRef
            /\ lastSeedSecondRef' = lastSeedSecondRef
            /\ populationRef' = populationRef /\ nextId' = nextId]_vars
    /\ [][(log.kind = "paused" /\ log'.kind = "frame") =>
            /\ log'.deltaMs = log'.timestamp - log.timestamp
            /\ elapsedRef' = elapsedRef + log'.deltaMs]_vars
\* A frame ran after a pause of 5 s and counted 16 ms.
ResumedAfterLongPause ==
    /\ log.kind = "frame" /\ frames = 2 /\ elapsedRef = 16 /\ log.deltaMs = 16
    /\ log.timestamp = 1000 + 5000 + 16

\* The particle b of one frame and the same particle c of the next: dying
\* stays until the recycle, and under a positive time delta a dying
\* particle is recycled or has faded further, a non-dying one is marked
\* dying, is at lifecycle 1 or has come closer to it.  The lifecycle moves
\* by at least LIFECYCLE_FADE_RATE per frame, so finitely many frames do.
DeathProceeds(b, c) ==
    /\ b.dying => (c.dying \/ c.id \in log'.recycled)
    /\ log'.deltaMs > 0 =>
          IF b.dying
          THEN \/ c.id \in log'.recycled
               \/ c.dying /\ c.lifecycle <= b.lifecycle - LIFECYCLE_FADE_RATE
          ELSE \/ c.dying
               \/ c.lifecycle = LIFECYCLE_FULL
               \/ c.lifecycle >= b.lifecycle + LIFECYCLE_FADE_RATE
\* Where the particle at index i is after the frame: at index i, unless the
\* hard-cap cull sorted the array.
IndexAfterFrame(i) ==
    IF log'.culled THEN {j \in 1..Len(blobs') : blobs'[j].id = blobs[i].id} ELSE {i}
\* C38 as stated: a particle marked dying stays dying until it is recycled,
\* and every non-paused frame with a positive time delta takes every
\* particle a step further (a dying one toward its recycling, a non-dying
\* one toward lifecycle 1 or into dying): the particle is there after the
\* frame.
DyingIsStickyAndCompletes ==
    [][RanFrame =>
         \A i \in 1..Len(blobs) :
            /\ IndexAfterFrame(i) # {}
            /\ \A j \in IndexAfterFrame(i) : DeathProceeds(blobs[i], blobs'[j])]_vars
\* C38 amended: the same, unless the hard-cap cull of the frame removed
\* the particle from the array.
DyingCompletesUnlessCulled ==
    [][RanFrame =>
         \A i \in 1..Len(blobs) :
            /\ IndexAfterFrame(i) = {} => log'.culled
            /\ \A j \in IndexAfterFrame(i) : DeathProceeds(blobs[i], blobs'[j])]_vars
\* A second frame recycled the particle the first frame marked dying, and
\* took the particles that were fading in to lifecycle 1.
DeathAndFadeInCompleted ==
    /\ log.kind = "frame" /\ frames = 2 /\ log.deltaMs > 0 /\ ~log.culled
    /\ log.recycled # {}
    /\ \E i \in 1..Len(blobs) :
          blobs[i].id \in log.recycled /\ ~blobs[i].dying /\ blobs[i].lifecycle = 0
    /\ \E k \in 1..Len(blobs) :
          ~blobs[k].dying /\ blobs[k].lifecycle = LIFECYCLE_FULL /\ blobs[k].age = 2

====
